---- MODULE Spec2Model ----
(***************************************************************************)
(* Execution control plane of genius-bot-worker.                           *)
(*                                                                         *)
(* The persistent store (system_state, audit_log, executed_signals,        *)
(* oco_links, trades), the execution engine (execute_signal with its SELL handler  *)
(* and entry helper, reconcile_oco) and the startup sync are modelled from *)
(* src/execution.  A handler runs as a sequence of steps, one per place    *)
(* where the exchange or the store answers (a call returns or raises);     *)
(* run holds the running handler's frame.  The history variable trace      *)
(* records, in order, the handler's gate reads (idempotency, system_state, *)
(* kill-switch oracle, active-OCO check), its marks, and its calls that    *)
(* place or cancel an order; read-only exchange calls are not recorded.    *)
(* The worker is single-threaded: a handler starts only when none is       *)
(* running.                                                                *)
(*                                                                         *)
(* Environment: store writes (log_event, mark_signal_id_executed, ...)     *)
(* succeed; store reads fail where the code reads (idempotency check,      *)
(* system_state load, kill-switch oracle, active-OCO check); every         *)
(* exchange call may raise.                                                *)
(***************************************************************************)
EXTENDS Integers, Naturals, Sequences, FiniteSets

\* ---------------------------------------------------------------- bounds
\* Handler invocations (execute_signal, reconcile_oco, run_startup_sync) in a run.
MaxOps == 3
\* Entries of orderReports[] / orders[] in an OCO response.
MaxReports == 2
\* oco_links rows of a reconcile run's table, short of the over-limit table.
MaxLinks == 3
\* calls of the outbox functions in a behaviour
MaxCalls == 4
\* calls of generate_signal in a behaviour
MaxGenCalls == 3
\* the generator's clock: where it stops, and how far a tick takes it (seconds)
MaxClock == 600
TickSeconds == 60

\* ------------------------------------------------------- program constants
\* MAX_QUOTE_PER_TRADE default (quote units).
MAX_QUOTE_PER_TRADE == 10
\* SELL_BUFFER 0.999 and SELL_RETRY_BUFFER 0.998, in thousandths.
SELL_BUFFER == 999
SELL_RETRY_BUFFER == 998
\* fee 0.20, slippage 0.15, min net 0.60, in hundredths of a percent.
ESTIMATED_ROUNDTRIP_FEE_PCT == 20
ESTIMATED_SLIPPAGE_PCT == 15
MIN_NET_PROFIT_PCT == 60
\* SL_PCT and SL_LIMIT_GAP_PCT defaults, in hundredths of a percent.
SL_PCT == 70
SL_LIMIT_GAP_PCT == 15
\* list_active_oco_links(limit=50)
ACTIVE_LINK_LIMIT == 50
\* BOT_SIGNAL_COOLDOWN_SECONDS default.
COOLDOWN_SECONDS == 180
\* Lot step of the traded symbol, in units of 1e-8 base (1e-5 base).
LOT_STEP == 1000

\* ------------------------------------------------------------ input sets
Modes == {"DEMO", "TESTNET", "LIVE"}
SignalIds == {"s1", "s2"}
Verdicts == {"TRADE", "HOLD", "SELL"}
\* execution.symbol as sent; "" stands for a missing symbol.
Symbols == {"", "BTC/USDT", "btc/usdt", "ETH/USDT"}
Directions == {"LONG", "SHORT"}
EntryTypes == {"MARKET", "LIMIT"}
QuoteAmounts == {5, 10, 15}
\* the exchange's minimum notional per market, in quote units; 0 stands for an
\* unknown market (the lookup raises inside get_min_notional).
MinNotionals ==
    [s \in Symbols |-> IF s = "BTC/USDT" THEN 6 ELSE IF s = "ETH/USDT" THEN 10 ELSE 0]
\* fetch_balance_free answers, in units of 1e-8 base.
FreeBases == {0, 1000, 15000}
\* the average of the entry fill, in ticks of 0.01 quote.
BuyAverages == {10000000, 7625390}
\* what the double product is off by, in 1e-4 tick.
FloatErrs == {-1, 0, 1}
\* order ids in an OCO response; "" stands for a missing id.
OrderIds == {"", "A", "B"}
OrderTypes == {"LIMIT_MAKER", "STOP_LOSS_LIMIT"}
ListOrderIds == {"", "L1"}
\* raw order statuses fetch_order answers.
RawStatuses == {"open", "closed", "FILLED", "canceled", "expired"}
\* SYMBOL_WHITELIST default.
SYMBOL_WHITELIST == {"BTC/USDT"}
\* certified_signal as sent; only the boolean True passes `is True`.
CertifiedValues == {"True", "False", "1"}
\* how the signal sizes the entry: quote_amount, position_size (with the last
\* price fetched, or the fetch raising), or neither.
Sizings == {"quote_amount", "position_size", "position_size_price_raises", "none"}
\* KILL_SWITCH as set in the environment.
EnvValues == {"true", "TRUE", "false", "1", "on"}
\* TP_PCT settings, in hundredths of a percent (default 1.30).
TpPcts == {130, 90}

VARIABLES
    mode,               \* MODE
    env_kill_switch,    \* KILL_SWITCH == "true"
    live_confirmation,  \* LIVE_CONFIRMATION == "true"
    tp_pct,             \* TP_PCT
    open_positions,     \* rows of positions with status OPEN
    trades,             \* trades rows
    legs,               \* per link id, the leg statuses the exchange holds
    system_state,       \* the row id = 1 of system_state
    audit_log,          \* audit_log, in id order
    executed_signals,   \* executed_signals rows
    oco_links,          \* oco_links rows, in id order
    entry_buys,         \* per signal_id, entry orders the exchange accepted
    run,                \* the frame of the running (or last) handler
    trace,              \* calls of the running (or last) handler, in order
    ops,                \* handler invocations so far
    crashed,            \* a handler was cut short by a process crash
    outbox,             \* the outbox file, the temporary file and the running call
    parked,             \* frame and calls of a second worker instance, not running
    generator           \* the signal generator: its settings, clock, globals and call

vars == <<mode, env_kill_switch, live_confirmation, tp_pct, open_positions, trades, legs, system_state,
          audit_log, executed_signals, oco_links, entry_buys, run, trace, ops, crashed, outbox,
          parked, generator>>

config == <<mode, env_kill_switch, live_confirmation, tp_pct, open_positions, trades, legs, outbox,
            parked, generator>>

\* ---------------------------------------------------------------- helpers
\* str.upper() on the symbols of the model.
Upper(s) == IF s = "btc/usdt" THEN "BTC/USDT" ELSE s

\* _norm: str(s or "").strip().lower() on the raw statuses of the model.
Norm(s) == IF s = "FILLED" THEN "filled" ELSE s

\* _to_bool01 on the integer columns of system_state.
To_bool01(v) == v # 0

\* str.lower() on the environment values of the model.
Lower(s) == IF s = "TRUE" THEN "true" ELSE s

\* os.getenv("KILL_SWITCH", "false").lower() == "true"
env_kill_of(raw) == Lower(raw) = "true"

\* config._env_bool: the value is one of "1", "true", "yes", "y", "on".
env_bool(raw) == Lower(raw) \in {"1", "true", "yes", "y", "on"}

\* os.getenv(name, default) of a variable that is "unset" or holds raw.
getenv(raw, default) == IF raw = "unset" THEN default ELSE raw

\* config.KILL_SWITCH = _env_bool("KILL_SWITCH", "true")
config_KILL_SWITCH(raw) == env_bool(getenv(raw, "true"))

\* ExecutionEngine.env_kill_switch
engine_env_kill_switch(raw) == env_kill_of(getenv(raw, "false"))

\* env_kill of is_kill_switch_active()
oracle_env_kill(raw) == env_kill_of(getenv(raw, "false"))

\* BinanceSpotClient.kill_switch, which _guard tests
adapter_kill_switch(raw) == env_kill_of(getenv(raw, "false"))

Ev(t, id) == [event_type |-> t, signal_id |-> id]
Call(c) == [call |-> c, ok |-> TRUE]
Fail(c) == [call |-> c, ok |-> FALSE]

\* ------------------------------------------------------------- repository
log_event(log, t, id) == Append(log, Ev(t, id))

signal_id_already_executed(ex, id) == \E r \in ex : r.signal_id = id

mark_signal_id_executed_noop(ex, id, action) == ex

\* INSERT OR REPLACE
mark_signal_id_executed_or_replace(ex, id, action) ==
    {r \in ex : r.signal_id # id} \cup {[signal_id |-> id, action |-> action]}

\* INSERT OR IGNORE on the primary key signal_id.
mark_signal_id_executed(ex, id, action) ==
    IF \E r \in ex : r.signal_id = id
    THEN ex
    ELSE ex \cup {[signal_id |-> id, action |-> action]}

has_active_oco_for_symbol_exact(links, symbol) ==
    \E i \in 1..Len(links) : links[i].status = "ACTIVE" /\ links[i].symbol = symbol

\* WHERE status='ACTIVE' AND UPPER(symbol)=UPPER(?)
has_active_oco_for_symbol(links, symbol) ==
    \E i \in 1..Len(links) :
        links[i].status = "ACTIVE" /\ Upper(links[i].symbol) = Upper(symbol)

create_oco_link(links, id, symbol, tp, sl) ==
    Append(links, [id |-> Len(links) + 1, signal_id |-> id, symbol |-> symbol,
                   tp_order_id |-> tp, sl_order_id |-> sl, status |-> "ACTIVE"])

set_oco_status(links, link_id, status) ==
    [i \in 1..Len(links) |->
        IF links[i].id = link_id THEN [links[i] EXCEPT !.status = status] ELSE links[i]]

\* ids of the ACTIVE rows, ORDER BY id DESC
RECURSIVE ActiveDesc(_, _)
ActiveDesc(links, i) ==
    IF i = 0 THEN <<>>
    ELSE IF links[i].status = "ACTIVE"
         THEN <<links[i].id>> \o ActiveDesc(links, i - 1)
         ELSE ActiveDesc(links, i - 1)

\* A listing without WHERE status='ACTIVE': the ids of all rows, newest first.
list_oco_links_of_any_status(links, limit) ==
    LET all == [i \in 1..Len(links) |-> links[Len(links) + 1 - i].id]
    IN  IF Len(all) > limit THEN SubSeq(all, 1, limit) ELSE all

\* ... LIMIT ?
list_active_oco_links(links, limit) ==
    LET all == ActiveDesc(links, Len(links))
    IN  IF Len(all) > limit THEN SubSeq(all, 1, limit) ELSE all

update_system_state_clears_kill(st, upd) ==
    [f \in DOMAIN st |-> IF f \in DOMAIN upd THEN upd[f]
                         ELSE IF f = "kill_switch" THEN 0 ELSE st[f]]

\* open_trade: the row of an open trade; the exit columns are NULL.  No
\* handler of the engine calls open_trade or close_trade, so the table keeps
\* the rows it starts with: one open trade for s1, none for s2.
open_trade(id) ==
    [signal_id |-> id, exit_price |-> "NULL", closed_at |-> "NULL", outcome |-> "NULL",
     pnl_quote |-> "NULL", pnl_pct |-> "NULL"]

\* get_trade: the rows of the signal.
get_trade(rows, id) == {t \in rows : t.signal_id = id}

\* update_system_state: a partial update of the row; upd holds the given fields.
update_system_state(st, upd) ==
    [f \in DOMAIN st |-> IF f \in DOMAIN upd THEN upd[f] ELSE st[f]]

\* -------------------------------------------------------- kill-switch oracle
\* is_kill_switch_active(): ENV, then DB; a failed read answers True.
is_kill_switch_active(env, st, read_ok) ==
    IF env THEN TRUE
    ELSE IF read_ok THEN To_bool01(st.kill_switch)
    ELSE TRUE

\* The oracle's entry in the trace; ok tells whether its store read succeeded.
Oracle(read_ok) == [call |-> "is_kill_switch_active", ok |-> read_ok]

\* ------------------------------------------------------------ outbox file
\* The signals a producer appends: a signal_id and the trade content.
OutboxSignals == [signal_id : SignalIds, content : {"long_btc", "sell_btc"}]

\* The frame of an outbox call: the signal to append (or the signal_id to
\* acknowledge), the list as read from the file, the list the caller makes
\* of it, the payload being written, where to go on after a write, and the
\* value returned.
OutboxCall(op, pc, after, signal) ==
    [op |-> op, pc |-> pc, after |-> after, signal |-> signal, before |-> <<>>,
     signals |-> <<>>, writing |-> <<>>, result |-> <<>>, outcome |-> "running"]

\* No call is running; the file is absent or holds {"signals": []}.  The
\* histories: the signals whose append reached the file, the heads a pop
\* took off the file, the signals pop_next_signal returned.
OutboxAtRest(file_state) ==
    [file |-> [state |-> file_state, signals |-> <<>>],
     tmp |-> [state |-> "none", signals |-> <<>>],
     call |-> [OutboxCall("init", "idle", "return", <<>>) EXCEPT !.outcome = "returned"],
     calls |-> 0, appended |-> <<>>, removed |-> <<>>, popped |-> <<>>]

\* ------------------------------------------------------------------ state
\* A frame: the handler, where it is, and the signal fields it has read.
Frame(op, pc, id, verdict, from) ==
    [op |-> op, pc |-> pc, signal_id |-> id, verdict |-> verdict, certified |-> "unread",
     symbol |-> "", quote |-> 0, list_order_id |-> "", tp |-> "", sl |-> "",
     buy_avg |-> 0, free_base |-> 0, sell_amount |-> 0,
     tp_price |-> 0, sl_stop_price |-> 0, sl_limit_price |-> 0,
     from |-> from, outcome |-> "running", result |-> "None"]

\* The generator before its first call: BLOCK_SIGNALS_WHEN_ACTIVE_OCO, the
\* clock (time.time(), past the first cooldown), _last_emit_ts = 0.0, no
\* call running (k is the place in SYMBOLS, 0 outside the loop), and what it
\* has appended to the outbox.
GeneratorAtRest(block) ==
    [block |-> block, now |-> COOLDOWN_SECONDS, last_emit_ts |-> 0, calls |-> 0,
     k |-> 0, result |-> "None", outbox |-> <<>>]

\* A second worker instance that has not been handed anything.
NoSecondWorker ==
    [run |-> [Frame("init", "idle", "", "", 0) EXCEPT !.outcome = "returned"],
     trace |-> <<>>]

\* init_db(): one system_state row, status RUNNING and startup_sync_ok 0, the
\* other tables empty.  kill_switch is 0 in a new row; INSERT OR IGNORE keeps
\* the flag of a row that is already there, so it starts at either value.
Init ==
    /\ mode \in Modes
    /\ \E raw \in EnvValues : env_kill_switch = env_kill_of(raw)
    /\ live_confirmation \in BOOLEAN
    /\ tp_pct \in TpPcts
    /\ open_positions \in 0..1
    /\ trades = {open_trade("s1")}
    /\ legs = <<>>
    /\ \E kill \in 0..1 :
        system_state = [status |-> "RUNNING", startup_sync_ok |-> 0, kill_switch |-> kill]
    /\ audit_log = <<>>
    /\ executed_signals = {}
    /\ oco_links = <<>>
    /\ entry_buys = [id \in SignalIds |-> 0]
    /\ run = [Frame("init", "idle", "", "", 0) EXCEPT !.outcome = "returned"]
    /\ trace = <<>>
    /\ ops = 0
    /\ crashed = FALSE
    /\ outbox = OutboxAtRest("absent")
    /\ parked = NoSecondWorker
    /\ generator = GeneratorAtRest(TRUE)

TypeOK ==
    /\ mode \in Modes
    /\ env_kill_switch \in BOOLEAN
    /\ live_confirmation \in BOOLEAN
    /\ open_positions \in 0..1
    /\ system_state.kill_switch \in 0..1
    /\ system_state.startup_sync_ok \in 0..1
    /\ system_state.status \in {"RUNNING", "ACTIVE", "PAUSED", "KILLED"}
    /\ ops \in 0..MaxOps
    /\ run.signal_id \in SignalIds \cup {""}
    /\ \A i \in 1..Len(oco_links) : oco_links[i].id = i

\* The store and the frame as the running step sees them.
Cur ==
    [run |-> run, ops |-> ops, crashed |-> crashed, aud |-> audit_log, tr |-> trace, ex |-> executed_signals,
     links |-> oco_links, st |-> system_state, buys |-> entry_buys]

\* A handler starts: only when none is running.
Begin(op, pc, id, verdict) ==
    [Cur EXCEPT !.run = Frame(op, pc, id, verdict, Len(audit_log)),
                !.tr = <<>>, !.ops = @ + 1]

Log(c, t) == [c EXCEPT !.aud = log_event(@, t, c.run.signal_id)]
Tr(c, e) == [c EXCEPT !.tr = Append(@, e)]
Mark(c, action) ==
    [c EXCEPT !.ex = mark_signal_id_executed(@, c.run.signal_id, action),
              !.tr = Append(@, Call("mark_signal_id_executed"))]

\* What a step leaves behind.
Commit(c) ==
    /\ run' = c.run
    /\ ops' = c.ops
    /\ crashed' = c.crashed
    /\ audit_log' = c.aud
    /\ trace' = c.tr
    /\ executed_signals' = c.ex
    /\ oco_links' = c.links
    /\ system_state' = c.st
    /\ entry_buys' = c.buys
    /\ UNCHANGED config

\* The handler goes on at pc.
Goto(c, pc) == Commit([c EXCEPT !.run.pc = pc])

\* The handler is over; its locals are gone.
Finish(c, outcome) ==
    Commit([c EXCEPT !.run.pc = "idle", !.run.outcome = outcome, !.run.symbol = "",
                     !.run.quote = 0, !.run.list_order_id = "", !.run.tp = "",
                     !.run.sl = "", !.run.buy_avg = 0, !.run.free_base = 0,
                     !.run.sell_amount = 0, !.run.tp_price = 0,
                     !.run.sl_stop_price = 0, !.run.sl_limit_price = 0])

\* The handler returns.
Return(c) == Finish(c, "returned")

\* An exception leaves the handler.
Raise(c) == Finish(c, "raised")

\* return v
ReturnValue(c, v) == Return([c EXCEPT !.run.result = v])

\* ----------------------------------------------------------- startup sync
\* run_startup_sync
run_startup_sync ==
    /\ run.pc = "idle"
    /\ ops < MaxOps
    /\ \E read_ok \in BOOLEAN :
        LET c == Begin("run_startup_sync", "idle", "", "")
            db_kill == IF read_ok THEN To_bool01(system_state.kill_switch) ELSE FALSE
            paused == [status |-> "PAUSED", startup_sync_ok |-> 0]
            active == [status |-> "ACTIVE", startup_sync_ok |-> 1]
        IN
        IF env_kill_switch \/ db_kill
        THEN ReturnValue(Log([c EXCEPT !.st = update_system_state(@,
                            [status |-> "KILLED", startup_sync_ok |-> 0, kill_switch |-> 1])],
                        "KILL_SWITCH_ACTIVATED"), "False")
        ELSE IF mode = "DEMO"
        THEN ReturnValue(Log([c EXCEPT !.st = update_system_state(@, active)],
                             "STARTUP_SYNC_OK"), "True")
        ELSE \E probe \in {"ok", "public_fail", "private_fail"} :
            IF probe = "public_fail"
            THEN ReturnValue(Log([c EXCEPT !.st = update_system_state(@, paused)],
                            "EXCHANGE_CONNECT_FAIL"), "False")
            ELSE IF probe = "private_fail"
            THEN ReturnValue(Log(Log([c EXCEPT !.st = update_system_state(@, paused)],
                                "EXCHANGE_PUBLIC_OK"), "EXCHANGE_CONNECT_FAIL"), "False")
            ELSE LET c1 == Log(Log(c, "EXCHANGE_PUBLIC_OK"), "EXCHANGE_PRIVATE_OK") IN
                 IF open_positions > 0
                 THEN ReturnValue(Log([c1 EXCEPT !.st = update_system_state(@, paused)],
                                 "STARTUP_SYNC_FAIL"), "False")
                 ELSE ReturnValue(Log([c1 EXCEPT !.st = update_system_state(@, active)],
                                 "STARTUP_SYNC_OK"), "True")

\* ------------------------------------------------------- execution engine
LiveError_marks(c) == Return(Mark(Log(c, "EXEC_LIVE_ERROR"), "LIVE_ERROR"))

\* except Exception: EXEC_LIVE_ERROR, return.
LiveError(c) == Return(Log(c, "EXEC_LIVE_ERROR"))

LiveBlocked_unmarked(c) == Return(Log(c, "EXEC_REJECT_LIVE_BLOCKED"))

\* except LiveTradingBlocked: EXEC_REJECT_LIVE_BLOCKED, mark, return.
LiveBlocked(c) == Return(Mark(Log(c, "EXEC_REJECT_LIVE_BLOCKED"), "REJECT_LIVE_BLOCKED"))

LastGateBlocked_marks(c) ==
    Return(Mark(Log(c, "EXEC_BLOCKED_KILL_SWITCH_LAST_GATE"), "BLOCKED_KILL_SWITCH"))

\* if is_kill_switch_active(): EXEC_BLOCKED_KILL_SWITCH_LAST_GATE, return.
LastGateBlocked(c) == Return(Log(c, "EXEC_BLOCKED_KILL_SWITCH_LAST_GATE"))

\* BinanceSpotClient.get_min_notional: the market's minimum, 0.0 if unknown.
get_min_notional(symbol) == MinNotionals[symbol]

\* self.exchange is set in __init__ for LIVE and TESTNET only.
ExchangeWired(m) == m \in {"LIVE", "TESTNET"}

\* _net_edge_ok
net_edge_ok(tp) ==
    ~ (tp - (ESTIMATED_ROUNDTRIP_FEE_PCT + ESTIMATED_SLIPPAGE_PCT) < MIN_NET_PROFIT_PCT)

\* A guard that lets DEMO through.
guard_ok_in_demo(m, env_kill, live_conf, symbol, quote) ==
    /\ ~ env_kill
    /\ ~ (m = "LIVE" /\ ~ live_conf)
    /\ ~ (symbol # "" /\ Upper(symbol) \notin SYMBOL_WHITELIST)
    /\ ~ (quote # 0 /\ quote > MAX_QUOTE_PER_TRADE)

\* BinanceSpotClient._guard; quote = 0 stands for quote_amount=None.
guard_ok(m, env_kill, live_conf, symbol, quote) ==
    /\ ~ env_kill
    /\ ~ (m = "LIVE" /\ ~ live_conf)
    /\ m # "DEMO"
    /\ ~ (symbol # "" /\ Upper(symbol) \notin SYMBOL_WHITELIST)
    /\ ~ (quote # 0 /\ quote > MAX_QUOTE_PER_TRADE)

\* The order-placing primitives of BinanceSpotClient.
OrderPrimitives ==
    {"place_market_buy_by_quote", "place_market_sell", "place_limit_sell_amount",
     "place_stop_loss_limit_sell", "place_oco_sell"}

\* The first statement of a primitive: self._guard(symbol), with the
\* quote_amount for the market buy only.  TRUE: the primitive goes on to
\* the wire call.
primitive_guard(primitive, m, env_kill, live_conf, symbol, quote) ==
    guard_ok(m, env_kill, live_conf, symbol,
             IF primitive = "place_market_buy_by_quote" THEN quote ELSE 0)

\* An amount helper that rounds to the nearest lot step.
floor_amount_rounds(free, buffer) ==
    ((free * buffer + 500 * LOT_STEP) \div (1000 * LOT_STEP)) * LOT_STEP

\* floor_amount(symbol, free * buffer): free in 1e-8 base, buffer in thousandths.
floor_amount(free, buffer) == ((free * buffer) \div (1000 * LOT_STEP)) * LOT_STEP

\* sell_amount with the retry buffer when the first floors to 0.
sell_amount_of(free) ==
    IF floor_amount(free, SELL_BUFFER) > 0
    THEN floor_amount(free, SELL_BUFFER)
    ELSE floor_amount(free, SELL_RETRY_BUFFER)

\* A price helper that cuts the price down to the tick.
floor_price_truncates(price) == price.ticks + (price.rest \div 10000)

\* floor_price(symbol, price): price_to_precision rounds the price to the
\* tick; the price comes as whole ticks and a rest in 1e-4 tick.
floor_price(price) == price.ticks + ((price.rest + 5000) \div 10000)

\* price * (1.0 + pct / 100.0) in doubles: price in ticks, pct in hundredths
\* of a percent (negative below the price), err what the double is off by.
pct_product(price, pct, err) == [ticks |-> price, rest |-> price * pct + err]

\* tp_price, sl_stop_price and sl_limit_price of the OCO.
oco_prices(buy_avg, tp, errs) ==
    LET sl_stop == floor_price(pct_product(buy_avg, 0 - SL_PCT, errs[2])) IN
    [tp_price |-> floor_price(pct_product(buy_avg, tp, errs[1])),
     sl_stop_price |-> sl_stop,
     sl_limit_price |-> floor_price(pct_product(sl_stop, 0 - SL_LIMIT_GAP_PCT, errs[3]))]

gate_kill_switch_env_only(env_kill, db_kill) == env_kill

\* if self.env_kill_switch or db_kill
gate_kill_switch(env_kill, db_kill) == env_kill \/ db_kill

\* A gate that stops a KILLED system only.
gate_system_state_killed_only(sync_ok, db_status) == db_status = "KILLED"

gate_system_state_status_only(sync_ok, db_status) == db_status \notin {"ACTIVE", "RUNNING"}

\* if not sync_ok or db_status not in ("ACTIVE", "RUNNING")
gate_system_state(sync_ok, db_status) == ~ sync_ok \/ db_status \notin {"ACTIVE", "RUNNING"}

\* if self.mode == "LIVE" and not self.live_confirmation
gate_live_confirmation(m, live_conf) == m = "LIVE" /\ ~ live_conf

\* if signal.get("certified_signal") is not True
gate_certified(certified) == certified # "True"

IdempotencyFail_fail_open(c) == Goto(c, "gates")

\* except Exception: EXEC_BLOCKED_IDEMPOTENCY_FAIL, return.
IdempotencyFail(c) == Return(Log(c, "EXEC_BLOCKED_IDEMPOTENCY_FAIL"))

\* execute_signal is called: the idempotency check.
es_idempotency ==
    /\ run.pc = "idle"
    /\ ops < MaxOps
    /\ \E id \in SignalIds, verdict \in Verdicts, idem \in {"ok", "raise"} :
       LET c == Begin("execute_signal", "gates", id, verdict) IN
       IF idem = "raise"
       THEN IdempotencyFail(Tr(c, Fail("signal_id_already_executed")))
       ELSE IF signal_id_already_executed(c.ex, id)
       THEN Return(Log(Tr(c, Call("signal_id_already_executed")), "EXEC_DEDUPED"))
       ELSE Goto(Tr(c, Call("signal_id_already_executed")), "gates")

\* _load_system_state, then the kill-switch, system-state, confirmation and
\* certification gates.
es_gates ==
    /\ run.pc = "gates"
    /\ \E load \in {"ok", "raise"} :
       IF load = "raise" THEN Raise(Tr(Cur, Fail("get_system_state")))
       ELSE LET c == Tr(Cur, Call("get_system_state")) IN
       IF gate_kill_switch(env_kill_switch, To_bool01(c.st.kill_switch))
       THEN Return(Log(c, "EXEC_BLOCKED_KILL_SWITCH"))
       ELSE IF gate_system_state(To_bool01(c.st.startup_sync_ok), c.st.status)
       THEN Return(Log(c, "EXEC_BLOCKED_SYSTEM_STATE"))
       ELSE IF gate_live_confirmation(mode, live_confirmation)
       THEN Return(Log(c, "EXEC_BLOCKED_LIVE_CONFIRMATION"))
       ELSE \E certified \in CertifiedValues :
       LET c1 == [c EXCEPT !.run.certified = certified] IN
       IF gate_certified(certified) THEN Return(Log(c1, "REJECT_NOT_CERTIFIED"))
       ELSE Goto(c1, "route")

\* The payload: SELL, DEMO entry, LIVE/TESTNET entry.  No verdict but SELL is
\* tested: every other verdict takes the entry path.
es_route ==
    /\ run.pc = "route"
    /\ \E symbol \in Symbols, direction \in Directions :
       LET c == [Cur EXCEPT !.run.symbol = symbol] IN
       IF run.verdict = "SELL"
       THEN IF symbol = "" \/ direction # "LONG"
            THEN Return(Log(c, "REJECT_BAD_SELL_PAYLOAD"))
            ELSE Goto(c, "sell")
       ELSE \E entry_type \in EntryTypes :
            IF symbol = "" \/ direction # "LONG" \/ entry_type # "MARKET"
            THEN Return(Log(c, "REJECT_BAD_PAYLOAD"))
            ELSE IF mode = "DEMO" THEN Goto(c, "demo")
            ELSE IF ~ ExchangeWired(mode) THEN Return(Log(c, "EXEC_BLOCKED_NO_EXCHANGE"))
            ELSE \E sizing \in Sizings, quote \in QuoteAmounts :
                 Goto([c EXCEPT !.run.quote = IF sizing = "quote_amount" THEN quote ELSE 0],
                      "size")

\* DEMO entry: last price, simulated fill, TRADE_EXECUTED, mark.
es_demo_entry ==
    /\ run.pc = "demo"
    /\ \E out \in {"ok", "ticker_raises", "unsized"} :
       IF out # "ok" THEN Raise(Cur)
       ELSE Return(Mark(Log(Tr(Cur, Call("simulate_market_entry")), "TRADE_EXECUTED"),
                        "TRADE_DEMO"))

\* LIVE/TESTNET entry: the edge gate and the size.  run.quote is the signal's
\* quote_amount, 0 for None; position_size is then multiplied by the last price.
es_size ==
    /\ run.pc = "size"
    /\ IF ~ net_edge_ok(tp_pct)
       THEN Return(Mark(Log(Cur, "EXEC_REJECT_EDGE_GATE"), "REJECT_EDGE_GATE"))
       ELSE IF run.quote # 0 THEN Goto(Cur, "guard")
       ELSE \E sizing \in Sizings \ {"quote_amount"} :
       IF sizing \in {"none", "position_size_price_raises"} THEN LiveError(Cur)
       ELSE \E quote \in QuoteAmounts : Goto([Cur EXCEPT !.run.quote = quote], "guard")

\* The race guard and MIN_NOTIONAL.
es_guard ==
    /\ run.pc = "guard"
    /\ \E oco_read \in {"ok", "raise"} :
       IF oco_read = "raise"
       THEN Return(Log(Tr(Cur, Fail("has_active_oco_for_symbol")),
                       "EXEC_BLOCKED_ACTIVE_OCO_CHECK_FAIL"))
       ELSE LET c == Tr(Cur, Call("has_active_oco_for_symbol")) IN
       IF has_active_oco_for_symbol(c.links, run.symbol)
       THEN Return(Mark(Log(c, "EXEC_REJECT_ACTIVE_OCO_RACE"), "REJECT_ACTIVE_OCO_RACE"))
       ELSE LET min_notional == get_min_notional(run.symbol) IN
       IF min_notional > 0 /\ run.quote < min_notional
       THEN Return(Mark(Log(c, "EXEC_REJECT_MIN_NOTIONAL"), "REJECT_MIN_NOTIONAL"))
       ELSE Goto(c, "buy")

\* The last kill-switch gate, then _place_entry_buy up to the exchange's answer:
\* the spread gate and the MARKET buy by quote.  ENTRY_MODE=MAKER_LIMIT needs
\* place_limit_buy_postonly, which BinanceSpotClient lacks, and falls back to MARKET.
es_buy ==
    /\ run.pc = "buy"
    /\ \E read_ok \in BOOLEAN :
       LET c == Tr(Cur, Oracle(read_ok)) IN
       IF is_kill_switch_active(env_kill_switch, c.st, read_ok)
       THEN LastGateBlocked(c)
       ELSE \E spread \in {"ok", "wide"} :
       IF spread = "wide" THEN LiveError(c)
       ELSE IF ~ guard_ok(mode, env_kill_switch, live_confirmation, run.symbol, run.quote)
       THEN LiveBlocked(c)
       ELSE \E buy \in {"ok", "raise"} :
       IF buy = "raise" THEN LiveError(Tr(c, Fail("place_market_buy_by_quote")))
       ELSE Goto([Tr(c, Call("place_market_buy_by_quote")) EXCEPT
                     !.buys = [@ EXCEPT ![run.signal_id] = @ + 1]], "bought")

\* After the exchange accepted the buy: buy_avg (from the response, or from
\* fetch_last_price, which can raise), TRADE_EXECUTED, mark.
es_bought ==
    /\ run.pc = "bought"
    /\ \E avg \in {"in_response", "last_price", "last_price_raises"} :
       IF avg = "last_price_raises" THEN LiveError(Cur)
       ELSE \E buy_avg \in BuyAverages :
            Goto([Mark(Log(Cur, "TRADE_EXECUTED"), "TRADE_LIVE_BUY") EXCEPT
                     !.run.buy_avg = buy_avg], "oco_size")

\* The free base balance, the floored sell amount and the OCO prices.
es_oco_size ==
    /\ run.pc = "oco_size"
    /\ \E bal \in {"ok", "raise"} :
       IF bal = "raise" THEN LiveError(Cur)
       ELSE \E free \in FreeBases :
       IF sell_amount_of(free) <= 0 THEN Return(Log(Cur, "OCO_SKIP_NO_FREE_BASE"))
       ELSE \E errs \in [1..3 -> FloatErrs] :
            LET prices == oco_prices(run.buy_avg, tp_pct, errs) IN
            Goto([Cur EXCEPT !.run.free_base = free,
                             !.run.sell_amount = sell_amount_of(free),
                             !.run.tp_price = prices.tp_price,
                             !.run.sl_stop_price = prices.sl_stop_price,
                             !.run.sl_limit_price = prices.sl_limit_price],
                 "oco_place")

\* The kill-switch gate before the OCO, then place_oco_sell.
es_oco_place ==
    /\ run.pc = "oco_place"
    /\ \E read_ok \in BOOLEAN :
       LET c == Tr(Cur, Oracle(read_ok)) IN
       IF is_kill_switch_active(env_kill_switch, c.st, read_ok)
       THEN LastGateBlocked(c)
       ELSE IF ~ guard_ok(mode, env_kill_switch, live_confirmation, run.symbol, 0)
       THEN LiveBlocked(c)
       ELSE \E oco \in {"ok", "raise"} :
       IF oco = "raise" THEN LiveError(Tr(c, Fail("place_oco_sell")))
       ELSE Goto(Tr(c, Call("place_oco_sell")), "oco_parse")

SeqsUpTo(S, n) == UNION {[1..k -> S] : k \in 0..n}
OrderReports == SeqsUpTo([orderId : OrderIds, type : OrderTypes], MaxReports)
Orders == SeqsUpTo(OrderIds, MaxReports)

\* "STOP" in typ
IsStop(typ) == typ = "STOP_LOSS_LIMIT"

\* The scan of orderReports[]: the first STOP id is the SL, the first other id the TP.
RECURSIVE ScanReports(_, _, _)
ScanReports(reports, i, acc) ==
    IF i > Len(reports) THEN acc
    ELSE LET rep == reports[i] IN
         IF rep.orderId = "" THEN ScanReports(reports, i + 1, acc)
         ELSE IF IsStop(rep.type)
         THEN ScanReports(reports, i + 1,
                          [acc EXCEPT !.sl = IF @ # "" THEN @ ELSE rep.orderId])
         ELSE ScanReports(reports, i + 1,
                          [acc EXCEPT !.tp = IF @ # "" THEN @ ELSE rep.orderId])

\* The non-empty ids of orders[], first occurrences in order.
RECURSIVE Uniq(_, _, _)
Uniq(orders, i, acc) ==
    IF i > Len(orders) THEN acc
    ELSE IF orders[i] = "" \/ (\E k \in 1..Len(acc) : acc[k] = orders[i])
         THEN Uniq(orders, i + 1, acc)
         ELSE Uniq(orders, i + 1, Append(acc, orders[i]))

\* The fallback to orders[] when a child id is still missing.
OrdersFallback(ids, orders) ==
    IF (ids.tp = "" \/ ids.sl = "") /\ Len(orders) >= 2
    THEN LET uniq == Uniq(orders, 1, <<>>) IN
         IF Len(uniq) >= 2
         THEN [tp |-> IF ids.tp # "" THEN ids.tp ELSE uniq[1],
               sl |-> IF ids.sl # "" THEN ids.sl ELSE uniq[2]]
         ELSE ids
    ELSE ids

oco_invalid_ignores_list(list_order_id, tp, sl) ==
    tp = "" \/ sl = "" \/ tp = sl

oco_invalid_no_distinct(list_order_id, tp, sl) ==
    list_order_id = "" \/ tp = "" \/ sl = ""

\* (not list_order_id) or (not tp) or (not sl) or tp == sl
oco_invalid(list_order_id, tp, sl) ==
    list_order_id = "" \/ tp = "" \/ sl = "" \/ tp = sl

\* The OCO response: orderReports[] is scanned.
es_oco_reports ==
    /\ run.pc = "oco_parse"
    /\ \E reports \in OrderReports :
       LET scanned == ScanReports(reports, 1, [tp |-> "", sl |-> ""]) IN
       Goto([Cur EXCEPT !.run.tp = scanned.tp, !.run.sl = scanned.sl], "oco_orders")

\* orders[] is the fallback, listOrderId is read, OCO_ARMED is logged.
es_oco_orders ==
    /\ run.pc = "oco_orders"
    /\ \E orders \in Orders, list_order_id \in ListOrderIds :
       LET ids == OrdersFallback([tp |-> run.tp, sl |-> run.sl], orders) IN
       /\ (run.tp # "" /\ run.sl # "") => orders = <<>>
       /\ Goto(Log([Cur EXCEPT !.run.tp = ids.tp, !.run.sl = ids.sl,
                               !.run.list_order_id = list_order_id], "OCO_ARMED"),
               "oco_validate")

\* The validity check: FAILSAFE, or the link and TRADE_LIVE_ARMED.
es_oco_validate ==
    /\ run.pc = "oco_validate"
    /\ IF oco_invalid(run.list_order_id, run.tp, run.sl)
       THEN Return(Log([Log(Cur, "OCO_INVALID") EXCEPT
                           !.st = update_system_state(@, [kill_switch |-> 1])],
                       "FAILSAFE_KILL_SWITCH_SET"))
       ELSE Return(Log([Cur EXCEPT !.links = create_oco_link(@, run.signal_id, run.symbol,
                                                             run.tp, run.sl)],
                       "TRADE_LIVE_ARMED"))

\* _execute_sell up to its kill-switch gate.
es_sell_gate ==
    /\ run.pc = "sell"
    /\ IF mode = "DEMO" THEN Return(Mark(Log(Cur, "SELL_DEMO"), "SELL_DEMO"))
       ELSE IF ~ ExchangeWired(mode) THEN Return(Log(Cur, "SELL_BLOCKED_NO_EXCHANGE"))
       ELSE \E read_ok \in BOOLEAN :
       LET c == Tr(Cur, Oracle(read_ok)) IN
       IF is_kill_switch_active(env_kill_switch, c.st, read_ok)
       THEN Return(Log(c, "SELL_BLOCKED_KILL_SWITCH_LAST_GATE"))
       ELSE Goto(c, "sell_links")

\* What the exchange answers for one link in the SELL handler.
SellLinkOutcomes ==
    {[fetch |-> "raise", tp |-> "open", sl |-> "open", cancel |-> "ok"]}
    \cup [fetch : {"ok"}, tp : RawStatuses, sl : RawStatuses, cancel : {"ok", "raise"}]

CLOSED == {"closed", "filled"}
CANCELED == {"canceled", "cancelled", "expired", "rejected"}

\* cancel_order on one leg; its error is swallowed.
CancelLeg(c, oid, out) ==
    IF oid = "" THEN c
    ELSE Tr(c, IF out.cancel = "ok" THEN Call("cancel_order") ELSE Fail("cancel_order"))

\* A SELL handler that cancels the legs and forgets the link.
SellLink_keeps_active(c, link, out) ==
    IF out.fetch = "raise" THEN c
    ELSE IF Norm(out.tp) \in CLOSED
    THEN Log([c EXCEPT !.links = set_oco_status(@, link.id, "CLOSED_TP")], "SELL_SKIP")
    ELSE IF Norm(out.sl) \in CLOSED
    THEN Log([c EXCEPT !.links = set_oco_status(@, link.id, "CLOSED_SL")], "SELL_SKIP")
    ELSE Log(CancelLeg(CancelLeg(c, link.tp_order_id, out), link.sl_order_id, out),
             "OCO_CANCELED")

\* One ACTIVE link of the symbol in the SELL handler.
SellLink(c, link, out) ==
    IF out.fetch = "raise" THEN c
    ELSE IF Norm(out.tp) \in CLOSED
    THEN Log([c EXCEPT !.links = set_oco_status(@, link.id, "CLOSED_TP")], "SELL_SKIP")
    ELSE IF Norm(out.sl) \in CLOSED
    THEN Log([c EXCEPT !.links = set_oco_status(@, link.id, "CLOSED_SL")], "SELL_SKIP")
    ELSE LET c1 == CancelLeg(CancelLeg(c, link.tp_order_id, out), link.sl_order_id, out)
         IN  Log([c1 EXCEPT !.links = set_oco_status(@, link.id, "CANCELED_BY_SIGNAL")],
                 "OCO_CANCELED")

\* The ACTIVE rows kept for the symbol.
RowsOfSymbol(rows, symbol) ==
    SelectSeq(rows, LAMBDA id : Upper(oco_links[id].symbol) = Upper(symbol))

\* The loop over the ACTIVE links of the symbol, newest first.
RECURSIVE SellLinks(_, _, _, _)
SellLinks(c, rows, k, outs) ==
    IF k > Len(rows) THEN c
    ELSE SellLinks(SellLink(c, oco_links[rows[k]], outs[rows[k]]), rows, k + 1, outs)

\* The best-effort cancel of the OCO legs.
es_sell_links ==
    /\ run.pc = "sell_links"
    /\ LET rows == RowsOfSymbol(list_active_oco_links(oco_links, ACTIVE_LINK_LIMIT),
                                run.symbol)
       IN  \E outs \in [{rows[k] : k \in 1..Len(rows)} -> SellLinkOutcomes] :
           Goto(SellLinks(Cur, rows, 1, outs), "sell_out")

\* The free balance, the floored amount, the market sell.
es_sell_out ==
    /\ run.pc = "sell_out"
    /\ \E bal \in {"ok", "raise"} :
       IF bal = "raise" THEN Raise(Cur)
       ELSE \E free \in FreeBases :
       IF sell_amount_of(free) <= 0
       THEN Return(Mark(Log(Cur, "SELL_SKIP_NO_FREE_BASE"), "SELL_NO_FREE_BASE"))
       ELSE IF ~ guard_ok(mode, env_kill_switch, live_confirmation, run.symbol, 0)
       THEN Return(Log(Cur, "SELL_LIVE_ERROR"))
       ELSE \E sell \in {"ok", "raise", "ok_last_price_raises"} :
       IF sell = "raise" THEN Return(Log(Tr(Cur, Fail("place_market_sell")), "SELL_LIVE_ERROR"))
       ELSE IF sell = "ok_last_price_raises"
       THEN Return(Log(Tr(Cur, Call("place_market_sell")), "SELL_LIVE_ERROR"))
       ELSE Return(Mark(Log(Tr(Cur, Call("place_market_sell")), "SELL_LIVE_OK"), "SELL_LIVE"))

\* What the exchange answers for one link in the reconcile sweep.
ReconcileOutcomes ==
    {[fetch |-> "raise", tp |-> "open", sl |-> "open"]}
    \cup [fetch : {"ok"}, tp : RawStatuses, sl : RawStatuses]

ReconcileLink_tp_first(c, link, out) ==
    IF link.tp_order_id = "" \/ link.sl_order_id = "" THEN c
    ELSE IF out.fetch = "raise" THEN c
    ELSE LET tp_status == Norm(out.tp)
             sl_status == Norm(out.sl)
         IN
         IF tp_status \in CLOSED
         THEN [c EXCEPT !.links = set_oco_status(@, link.id, "CLOSED_TP"),
                        !.aud = log_event(@, "OCO_CLOSED", link.signal_id)]
         ELSE IF sl_status \in CLOSED
         THEN [c EXCEPT !.links = set_oco_status(@, link.id, "CLOSED_SL"),
                        !.aud = log_event(@, "OCO_CLOSED", link.signal_id)]
         ELSE IF tp_status \in CANCELED /\ sl_status \in CANCELED
         THEN [c EXCEPT !.links = set_oco_status(@, link.id, "FAILED"),
                        !.aud = log_event(@, "OCO_FAILED", link.signal_id)]
         ELSE c

\* One ACTIVE link of the sweep.  out.fetch tells what the link's calls do:
\* "ok", "raise" (fetch_order raises) or "update_raises" (the orders are
\* fetched and set_oco_status raises); the except branch only warns.
ReconcileLink(c, link, out) ==
    IF link.tp_order_id = "" \/ link.sl_order_id = "" THEN c
    ELSE IF out.fetch = "raise" THEN Tr(c, Fail("fetch_order"))
    ELSE LET tp_status == Norm(out.tp)
             sl_status == Norm(out.sl)
         IN
         IF out.fetch = "update_raises"
         THEN IF \/ sl_status \in CLOSED \/ tp_status \in CLOSED
                 \/ (tp_status \in CANCELED /\ sl_status \in CANCELED)
              THEN Tr(c, Fail("set_oco_status"))
              ELSE c
         ELSE IF sl_status \in CLOSED
         THEN [c EXCEPT !.links = set_oco_status(@, link.id, "CLOSED_SL"),
                        !.aud = log_event(@, "OCO_CLOSED", link.signal_id)]
         ELSE IF tp_status \in CLOSED
         THEN [c EXCEPT !.links = set_oco_status(@, link.id, "CLOSED_TP"),
                        !.aud = log_event(@, "OCO_CLOSED", link.signal_id)]
         ELSE IF (tp_status \in CANCELED /\ sl_status = "open")
                 \/ (sl_status \in CANCELED /\ tp_status = "open")
         THEN c
         ELSE IF tp_status \in CANCELED /\ sl_status \in CANCELED
         THEN [c EXCEPT !.links = set_oco_status(@, link.id, "FAILED"),
                        !.aud = log_event(@, "OCO_FAILED", link.signal_id)]
         ELSE c

\* What the rows from the k-th on append to a sequence (audit_log or trace):
\* res[r] is the context after link r alone, base its length before.
RECURSIVE Appended(_, _, _, _, _)
Appended(res, field, base, rows, k) ==
    IF k > Len(rows) THEN <<>>
    ELSE SubSeq(res[rows[k]][field], base + 1, Len(res[rows[k]][field]))
            \o Appended(res, field, base, rows, k + 1)

\* The loop body over rows: a link's step writes its own row and appends, so
\* the rows are stepped one by one from c and their writes put together in
\* row order.
SweepRows(c, rows, outs) ==
    LET listed == {rows[k] : k \in 1..Len(rows)}
        res == [r \in listed |-> ReconcileLink(c, c.links[r], outs[r])]
    IN  [c EXCEPT !.links = [i \in DOMAIN c.links |->
                                IF i \in listed THEN res[i].links[i] ELSE c.links[i]],
                  !.aud = c.aud \o Appended(res, "aud", Len(c.aud), rows, 1),
                  !.tr = c.tr \o Appended(res, "tr", Len(c.tr), rows, 1)]

ReconcileLinks_stops_at_failure(c, rows, k, outs) ==
    LET bad == {n \in k..Len(rows) : outs[rows[n]].fetch # "ok"} IN
    IF bad = {} THEN SweepRows(c, SubSeq(rows, k, Len(rows)), outs)
    ELSE LET first == CHOOSE n \in bad : \A m \in bad : n <= m IN
         Tr(SweepRows(c, SubSeq(rows, k, first - 1), outs), Fail("fetch_order"))

\* for r in rows, from the k-th row on
ReconcileLinks(c, rows, k, outs) == SweepRows(c, SubSeq(rows, k, Len(rows)), outs)

\* reconcile_oco
reconcile_oco ==
    /\ run.pc = "idle"
    /\ ops < MaxOps
    /\ LET c == Begin("reconcile_oco", "idle", "", "") IN
       IF mode \notin {"LIVE", "TESTNET"} \/ ~ ExchangeWired(mode) THEN Return(c)
       ELSE LET rows == list_active_oco_links(oco_links, ACTIVE_LINK_LIMIT) IN
            \E outs \in [{rows[k] : k \in 1..Len(rows)} -> ReconcileOutcomes] :
               Return(ReconcileLinks(c, rows, 1, outs))

\* ------------------------------------------------- reconcile sweeps alone
\* The tables a reconcile run starts from: n ACTIVE links with complete leg
\* ids, the i-th for the i-th signal and market; up to MaxLinks rows, or one
\* row more than a sweep lists.
LinkCounts == (0..MaxLinks) \cup {ACTIVE_LINK_LIMIT + 1}

LinkTable(n) ==
    [i \in 1..n |-> [id |-> i, signal_id |-> i, symbol |-> i, tp_order_id |-> "A",
                     sl_order_id |-> "B", status |-> "ACTIVE"]]

\* The links whose legs are not both open: among the oldest and the newest.
Watched(n) == {1, n} \cap (1..n)

\* Leg statuses of a link that is not simply open.
LegPairs ==
    {[tp |-> "FILLED", sl |-> "expired"], [tp |-> "open", sl |-> "closed"],
     [tp |-> "canceled", sl |-> "canceled"], [tp |-> "canceled", sl |-> "open"]}

\* A LIVE or TESTNET worker after a successful startup sync, with a table of
\* ACTIVE links; the exchange holds the statuses of their legs.
InitReconcile ==
    /\ mode \in {"LIVE", "TESTNET"}
    /\ env_kill_switch = FALSE
    /\ live_confirmation = TRUE
    /\ tp_pct \in {t \in TpPcts : net_edge_ok(t)}
    /\ open_positions = 0
    /\ trades = {}
    /\ \E n \in LinkCounts :
         /\ oco_links = LinkTable(n)
         /\ \E F \in SUBSET Watched(n) : \E p \in [F -> LegPairs] :
              legs = [i \in 1..n |-> IF i \in F THEN p[i]
                                     ELSE [tp |-> "open", sl |-> "open"]]
    /\ system_state = [status |-> "ACTIVE", startup_sync_ok |-> 1, kill_switch |-> 0]
    /\ audit_log = <<>>
    /\ executed_signals = {}
    /\ entry_buys = [id \in SignalIds |-> 0]
    /\ run = [Frame("init", "idle", "", "", 0) EXCEPT !.outcome = "returned"]
    /\ trace = <<>>
    /\ ops = 0
    /\ crashed = FALSE
    /\ outbox = OutboxAtRest("absent")
    /\ parked = NoSecondWorker
    /\ generator = GeneratorAtRest(TRUE)

\* reconcile_oco against the exchange's legs; the calls of link bad (0: of no
\* link) fail as kind tells.
ReconcileSweep(bad, kind) ==
    \E rows \in {list_active_oco_links(oco_links, ACTIVE_LINK_LIMIT)} :
    \E c \in {[Begin("reconcile_oco", "idle", "", "") EXCEPT !.ops = ops]} :
       LET outs == [r \in {rows[k] : k \in 1..Len(rows)} |->
                       [fetch |-> IF r = bad THEN kind ELSE "ok",
                        tp |-> legs[r].tp, sl |-> legs[r].sl]]
       IN  \E done \in {ReconcileLinks(c, rows, 1, outs)} : Return(done)

\* A sweep in which every exchange and store call answers.
reconcile_oco_answered ==
    /\ run.pc = "idle"
    /\ ReconcileSweep(0, "ok")

\* A sweep in which the calls of one listed link raise: the oldest link or
\* the newest.
reconcile_oco_link_fails ==
    /\ run.pc = "idle"
    /\ LET rows == list_active_oco_links(oco_links, ACTIVE_LINK_LIMIT) IN
       \E k \in 1..Len(rows), kind \in {"raise", "update_raises"} :
          /\ rows[k] \in Watched(Len(oco_links))
          /\ ReconcileSweep(rows[k], kind)

NextReconcile == reconcile_oco_answered \/ reconcile_oco_link_fails

\* The worker loop calls reconcile_oco again and again, and the exchange
\* answers in the end.
SpecReconcile ==
    InitReconcile /\ [][NextReconcile]_vars /\ WF_vars(reconcile_oco_answered)

\* ------------------------------------------------------- outbox functions
\* What the outbox functions leave alone.
worker == <<mode, env_kill_switch, live_confirmation, tp_pct, open_positions, trades, legs,
            system_state, audit_log, executed_signals, oco_links, entry_buys, run, trace,
            ops, crashed, parked>>

engine == <<worker, generator>>

\* A worker and a producer before the first outbox call; the file is absent
\* or was created empty by an earlier process.
InitOutbox ==
    /\ mode \in Modes
    /\ env_kill_switch = FALSE
    /\ live_confirmation = TRUE
    /\ tp_pct \in {t \in TpPcts : net_edge_ok(t)}
    /\ open_positions = 0
    /\ trades = {}
    /\ legs = <<>>
    /\ system_state = [status |-> "RUNNING", startup_sync_ok |-> 0, kill_switch |-> 0]
    /\ audit_log = <<>>
    /\ executed_signals = {}
    /\ oco_links = <<>>
    /\ entry_buys = [id \in SignalIds |-> 0]
    /\ run = [Frame("init", "idle", "", "", 0) EXCEPT !.outcome = "returned"]
    /\ trace = <<>>
    /\ ops = 0
    /\ crashed = FALSE
    /\ \E file_state \in {"absent", "json"} : outbox = OutboxAtRest(file_state)
    /\ parked = NoSecondWorker
    /\ generator = GeneratorAtRest(TRUE)

\* Does the file parse as a dict with a list under "signals"?
valid_outbox(file) == file.state = "json"

\* A call starts: only when none is running (single writer).
OutboxBegin(op, signal) ==
    /\ outbox.call.pc = "idle"
    /\ outbox.calls < MaxCalls
    /\ outbox' = [outbox EXCEPT !.call = OutboxCall(op, "ensure", "read", signal),
                                !.calls = @ + 1]
    /\ UNCHANGED engine

\* ensure_signal_outbox_exists(path), called on its own
call_ensure_signal_outbox_exists == OutboxBegin("ensure_signal_outbox_exists", <<>>)

\* pop_next_signal(path)
pop_next_signal == OutboxBegin("pop_next_signal", <<>>)

\* append_signal(signal, path)
append_signal == \E signal \in OutboxSignals : OutboxBegin("append_signal", <<signal>>)

\* The call goes on where its frame says after the file is known to be good
\* or a write is done.
OutboxGoOn(ob) ==
    IF ob.call.after = "read"
    THEN IF ob.call.op = "ensure_signal_outbox_exists"
         THEN [ob EXCEPT !.call.pc = "return"]
         ELSE [ob EXCEPT !.call.pc = "read"]
    ELSE IF ob.call.after = "write"
    THEN [ob EXCEPT !.call.pc = "mkstemp", !.call.writing = ob.call.signals,
                    !.call.after = "return"]
    ELSE [ob EXCEPT !.call.pc = "return"]

\* ensure_signal_outbox_exists: a missing or invalid file is written as
\* {"signals": []}.
ensure_signal_outbox_exists ==
    /\ outbox.call.pc = "ensure"
    /\ outbox' = IF outbox.file.state = "absent" \/ ~ valid_outbox(outbox.file)
                 THEN [outbox EXCEPT !.call.pc = "mkstemp", !.call.writing = <<>>]
                 ELSE OutboxGoOn(outbox)
    /\ UNCHANGED engine

list_pop_last(signals) ==
    [sig |-> signals[Len(signals)], signals |-> SubSeq(signals, 1, Len(signals) - 1)]

\* sig = signals.pop(0)
list_pop(signals) == [sig |-> Head(signals), signals |-> Tail(signals)]

\* A loop that drops every entry with the signal_id.
remove_every_match(signals, signal_id) ==
    [removed |-> \E i \in 1..Len(signals) : signals[i].signal_id = signal_id,
     new_signals |-> SelectSeq(signals, LAMBDA sig : sig.signal_id # signal_id)]

\* for s in signals: the first entry with the signal_id is left out of
\* new_signals, the others are appended in order.
RECURSIVE remove_loop(_, _, _, _)
remove_loop(signals, signal_id, i, acc) ==
    IF i > Len(signals) THEN acc
    ELSE IF ~ acc.removed /\ signals[i].signal_id = signal_id
    THEN remove_loop(signals, signal_id, i + 1, [acc EXCEPT !.removed = TRUE])
    ELSE remove_loop(signals, signal_id, i + 1,
                     [acc EXCEPT !.new_signals = Append(@, signals[i])])

remove_first_match(signals, signal_id) ==
    remove_loop(signals, signal_id, 1, [removed |-> FALSE, new_signals |-> <<>>])

\* _read_outbox and the list operation of the caller: pop(0), append, the
\* look at signals[0], or the removal of the acknowledged entry.
read_outbox ==
    /\ outbox.call.pc = "read"
    /\ LET signals == outbox.file.signals
           ob == [outbox EXCEPT !.call.before = signals]
       IN
       outbox' =
         IF outbox.call.op = "pop_next_signal"
         THEN IF signals = <<>>
              THEN [ob EXCEPT !.call.pc = "return", !.call.result = <<>>]
              ELSE [ob EXCEPT !.call.pc = "ensure", !.call.after = "write",
                              !.call.result = <<list_pop(signals).sig>>,
                              !.call.signals = list_pop(signals).signals]
         ELSE IF outbox.call.op = "get_latest_signal"
         THEN [ob EXCEPT !.call.pc = "return",
                         !.call.result = IF signals = <<>> THEN <<>> ELSE <<signals[1]>>]
         ELSE IF outbox.call.op = "acknowledge_processed"
         THEN LET found == remove_first_match(signals, outbox.call.signal[1]) IN
              IF found.removed
              THEN [ob EXCEPT !.call.pc = "ensure", !.call.after = "write",
                              !.call.result = <<TRUE>>,
                              !.call.signals = found.new_signals]
              ELSE [ob EXCEPT !.call.pc = "return", !.call.result = <<FALSE>>]
         ELSE [ob EXCEPT !.call.pc = "ensure", !.call.after = "write",
                         !.call.signals = Append(signals, outbox.call.signal[1])]
    /\ UNCHANGED engine

\* _atomic_write_json: tempfile.mkstemp in the directory of the file.
mkstemp ==
    /\ outbox.call.pc = "mkstemp"
    /\ outbox' = [outbox EXCEPT !.tmp = [state |-> "empty", signals |-> <<>>],
                                !.call.pc = "dump"]
    /\ UNCHANGED engine

json_dump_in_place(ob) ==
    [ob EXCEPT !.file = [state |-> "partial", signals |-> <<>>]]

\* json.dump has written a part of the document.
json_dump(ob) ==
    [ob EXCEPT !.tmp = [state |-> "partial", signals |-> <<>>]]

dump ==
    /\ outbox.call.pc = "dump"
    /\ outbox' = [json_dump(outbox) EXCEPT !.call.pc = "fsync"]
    /\ UNCHANGED engine

\* The rest of the document, flush and os.fsync.
fsync ==
    /\ outbox.call.pc = "fsync"
    /\ outbox' = [outbox EXCEPT !.tmp = [state |-> "complete", signals |-> outbox.call.writing],
                                !.call.pc = "replace"]
    /\ UNCHANGED engine

\* os.replace(tmp_name, path): the file becomes the temporary file in one
\* step.  A write of the caller's list is where an append or a pop takes
\* effect.
os_replace ==
    /\ outbox.call.pc = "replace"
    /\ LET ob == [outbox EXCEPT !.file = [state |-> "json", signals |-> outbox.tmp.signals],
                                !.tmp = [state |-> "none", signals |-> <<>>]]
           effect == outbox.call.after = "return"
           ob1 == IF effect /\ outbox.call.op = "append_signal"
                  THEN [ob EXCEPT !.appended = Append(@, outbox.call.signal[1])]
                  ELSE IF effect /\ outbox.call.op = "pop_next_signal"
                  THEN [ob EXCEPT !.removed = Append(@, outbox.call.result[1])]
                  ELSE ob
       IN  outbox' = OutboxGoOn(ob1)
    /\ UNCHANGED engine

\* return
outbox_return ==
    /\ outbox.call.pc = "return"
    /\ outbox' = [outbox EXCEPT !.call.pc = "idle", !.call.outcome = "returned",
                                !.popped = IF outbox.call.op = "pop_next_signal"
                                           THEN @ \o outbox.call.result ELSE @]
    /\ UNCHANGED engine

\* The process dies inside an outbox call: the frame is gone, the files stay.
outbox_crash ==
    /\ outbox.call.pc # "idle"
    /\ outbox' = [outbox EXCEPT !.call.pc = "idle", !.call.outcome = "crashed"]
    /\ UNCHANGED engine

NextOutbox ==
    \/ call_ensure_signal_outbox_exists \/ pop_next_signal \/ append_signal
    \/ ensure_signal_outbox_exists \/ read_outbox
    \/ mkstemp \/ dump \/ fsync \/ os_replace
    \/ outbox_return \/ outbox_crash

SpecOutbox == InitOutbox /\ [][NextOutbox]_vars

\* ------------------------------------- outbox, backward-compatible calls
\* The signal_id a consumer acknowledges; it can be empty.
AckIds == SignalIds \cup {""}

\* get_latest_signal(path)
get_latest_signal == OutboxBegin("get_latest_signal", <<>>)

\* acknowledge_processed(signal_id, path): an empty signal_id returns False
\* before the file is touched.
acknowledge_processed ==
    \E signal_id \in AckIds :
        IF signal_id = ""
        THEN /\ outbox.call.pc = "idle"
             /\ outbox.calls < MaxCalls
             /\ outbox' = [outbox EXCEPT
                    !.call = [OutboxCall("acknowledge_processed", "return", "return",
                                         <<signal_id>>) EXCEPT !.result = <<FALSE>>],
                    !.calls = @ + 1]
             /\ UNCHANGED engine
        ELSE OutboxBegin("acknowledge_processed", <<signal_id>>)

NextAck ==
    \/ append_signal \/ get_latest_signal \/ acknowledge_processed
    \/ ensure_signal_outbox_exists \/ read_outbox
    \/ mkstemp \/ dump \/ fsync \/ os_replace
    \/ outbox_return \/ outbox_crash

SpecAck == InitOutbox /\ [][NextAck]_vars

\* ------------------------------------------------------- signal generator
\* SYMBOLS, from BOT_SYMBOLS.
SYMBOLS == <<"BTC/USDT", "ETH/USDT">>

\* What one pass of the loop meets: the active-OCO lookup, fetch_ohlcv and
\* the candles, the risk state, the core's decision, and the first of the
\* extra guards that stops the signal.
SymbolInputs ==
    [lookup : {"ok", "raise"}, candles : {"ok", "raise", "short"},
     risk : {"OK", "REDUCE", "KILL"}, decision : {"EXECUTE", "STAND_DOWN"},
     guard : {"pass", "ma_gap", "conf", "edge", "env"}]

\* The generator and the two links it can find in a store that no worker
\* is changing.
InitGenerator ==
    /\ mode = "LIVE"
    /\ env_kill_switch = FALSE
    /\ live_confirmation = TRUE
    /\ tp_pct = 130
    /\ open_positions = 0
    /\ trades = {}
    /\ legs = <<>>
    /\ system_state = [status |-> "ACTIVE", startup_sync_ok |-> 1, kill_switch |-> 0]
    /\ audit_log = <<>>
    /\ executed_signals = {[signal_id |-> "s0", action |-> "TRADE_LIVE_BUY"]}
    /\ \E btc, eth \in {"ACTIVE", "CLOSED_TP"} :
          oco_links = <<[id |-> 1, signal_id |-> "s0", symbol |-> "BTC/USDT",
                         tp_order_id |-> "A", sl_order_id |-> "B", status |-> btc],
                        [id |-> 2, signal_id |-> "s0", symbol |-> "ETH/USDT",
                         tp_order_id |-> "A", sl_order_id |-> "B", status |-> eth]>>
    /\ entry_buys = [id \in SignalIds |-> 0]
    /\ run = [Frame("init", "idle", "", "", 0) EXCEPT !.outcome = "returned"]
    /\ trace = <<>>
    /\ ops = 0
    /\ crashed = FALSE
    /\ outbox = OutboxAtRest("absent")
    /\ parked = NoSecondWorker
    /\ \E block \in BOOLEAN : generator = GeneratorAtRest(block)

\* time.time() moves on.
clock_tick ==
    /\ generator.now + TickSeconds <= MaxClock
    /\ generator' = [generator EXCEPT !.now = @ + TickSeconds]
    /\ UNCHANGED <<worker, outbox>>

\* _cooldown_ok(): (time.time() - _last_emit_ts) >= COOLDOWN_SECONDS
cooldown_ok(now, last_emit_ts) == now - last_emit_ts >= COOLDOWN_SECONDS

\* A lookup that answers False when the store read fails.
has_active_oco_fails_open(links, symbol, lookup) ==
    IF lookup = "raise" THEN FALSE ELSE has_active_oco_for_symbol(links, symbol)

\* _has_active_oco(symbol): a failed lookup counts as an ACTIVE link.
has_active_oco(links, symbol, lookup) ==
    IF lookup = "raise" THEN TRUE ELSE has_active_oco_for_symbol(links, symbol)

\* generate_signal() up to the loop: the cooldown.
generate_signal ==
    /\ generator.k = 0
    /\ generator.calls < MaxGenCalls
    /\ generator' =
         IF ~ cooldown_ok(generator.now, generator.last_emit_ts)
         THEN [generator EXCEPT !.calls = @ + 1, !.result = "None"]
         ELSE [generator EXCEPT !.calls = @ + 1, !.result = "running", !.k = 1]
    /\ UNCHANGED <<worker, outbox>>

\* _emit(sig, outbox_path) and return sig: the signal, with what the
\* generator had seen of the symbol, goes to the outbox; _last_emit_ts is
\* the time of the append.
emit(gen, verdict, symbol, active_oco, in) ==
    [gen EXCEPT
        !.outbox = Append(@, [signal_id |-> Len(@) + 1, final_verdict |-> verdict,
                              symbol |-> symbol, ts |-> gen.now, call |-> gen.calls,
                              active_oco |-> active_oco, lookup |-> in.lookup,
                              risk |-> in.risk]),
        !.last_emit_ts = gen.now, !.k = 0, !.result = verdict]

\* continue, or return None after the last symbol.
next_symbol(gen) ==
    IF gen.k < Len(SYMBOLS) THEN [gen EXCEPT !.k = @ + 1]
    ELSE [gen EXCEPT !.k = 0, !.result = "None"]

\* One pass of "for symbol in SYMBOLS".
generate_for_symbol ==
    /\ generator.k > 0
    /\ \E in \in SymbolInputs :
       LET symbol == SYMBOLS[generator.k]
           active_oco == has_active_oco(oco_links, symbol, in.lookup)
       IN
       generator' =
         IF in.candles # "ok" THEN next_symbol(generator)
         ELSE IF active_oco /\ in.risk = "KILL"
         THEN emit(generator, "SELL", symbol, active_oco, in)
         ELSE IF active_oco /\ generator.block THEN next_symbol(generator)
         ELSE IF in.decision # "EXECUTE" THEN next_symbol(generator)
         ELSE IF in.guard # "pass" THEN next_symbol(generator)
         ELSE emit(generator, "TRADE", symbol, active_oco, in)
    /\ UNCHANGED <<worker, outbox>>

NextGenerator == generate_signal \/ generate_for_symbol \/ clock_tick

SpecGenerator == InitGenerator /\ [][NextGenerator]_vars

\* The process dies in the middle of a handler; the store stays as it is.
crash ==
    /\ run.pc # "idle"
    /\ Finish([Cur EXCEPT !.crashed = TRUE], "crashed")

Next ==
    \/ run_startup_sync
    \/ es_idempotency \/ es_gates \/ es_route \/ es_demo_entry
    \/ es_size \/ es_guard \/ es_buy \/ es_bought
    \/ es_oco_size \/ es_oco_place \/ es_oco_reports \/ es_oco_orders \/ es_oco_validate
    \/ es_sell_gate \/ es_sell_links \/ es_sell_out
    \/ reconcile_oco
    \/ crash

Spec == Init /\ [][Next]_vars

\* ------------------------------------------------- a worker with old links
\* The status a link can have been left with.
LinkStatuses == {"ACTIVE", "CLOSED_TP", "CLOSED_SL", "CANCELED_BY_SIGNAL", "FAILED"}

\* Two links of an earlier signal s0 on BTC/USDT, the older one settled.
OldLinks(first, second) ==
    <<[id |-> 1, signal_id |-> "s0", symbol |-> "BTC/USDT", tp_order_id |-> "A",
       sl_order_id |-> "B", status |-> first],
      [id |-> 2, signal_id |-> "s0", symbol |-> "BTC/USDT", tp_order_id |-> "A",
       sl_order_id |-> "B", status |-> second]>>

\* A worker after a successful startup sync (the first operation), with the
\* links and the executed_signals row that earlier runs left in the store.
InitLinks ==
    /\ mode \in {"DEMO", "LIVE"}
    /\ env_kill_switch = FALSE
    /\ live_confirmation = TRUE
    /\ tp_pct = 130
    /\ open_positions = 0
    /\ trades = {open_trade("s1")}
    /\ legs = <<>>
    /\ system_state = [status |-> "ACTIVE", startup_sync_ok |-> 1, kill_switch |-> 0]
    /\ audit_log = <<>>
    /\ executed_signals = {[signal_id |-> "s0", action |-> "TRADE_LIVE_BUY"]}
    /\ \E first \in LinkStatuses \ {"ACTIVE"}, second \in {"ACTIVE", "CLOSED_SL"} :
          oco_links = OldLinks(first, second)
    /\ entry_buys = [id \in SignalIds |-> 0]
    /\ run = [Frame("run_startup_sync", "idle", "", "", 0) EXCEPT
                 !.outcome = "returned", !.result = "True"]
    /\ trace = <<>>
    /\ ops = 1
    /\ crashed = FALSE
    /\ outbox = OutboxAtRest("absent")
    /\ parked = NoSecondWorker
    /\ generator = GeneratorAtRest(TRUE)

SpecLinks == InitLinks /\ [][Next]_vars

\* ------------------------------------------------- two worker instances
\* Two LIVE workers on one store after a successful startup sync (the first
\* operation); each is about to be handed a signal.
InitWorkers ==
    /\ mode = "LIVE"
    /\ env_kill_switch = FALSE
    /\ live_confirmation = TRUE
    /\ tp_pct = 130
    /\ open_positions = 0
    /\ trades = {}
    /\ legs = <<>>
    /\ system_state = [status |-> "ACTIVE", startup_sync_ok |-> 1, kill_switch |-> 0]
    /\ audit_log = <<>>
    /\ executed_signals = {}
    /\ oco_links = <<>>
    /\ entry_buys = [id \in SignalIds |-> 0]
    /\ run = [Frame("run_startup_sync", "idle", "", "", 0) EXCEPT
                 !.outcome = "returned", !.result = "True"]
    /\ trace = <<>>
    /\ ops = 1
    /\ crashed = FALSE
    /\ outbox = OutboxAtRest("absent")
    /\ parked = NoSecondWorker
    /\ generator = GeneratorAtRest(TRUE)

\* The scheduler takes the processor from one worker process and gives it to
\* the other, between two calls of the running handler.
switch ==
    /\ run' = parked.run
    /\ trace' = parked.trace
    /\ parked' = [run |-> run, trace |-> trace]
    /\ UNCHANGED <<mode, env_kill_switch, live_confirmation, tp_pct, open_positions,
                   trades, legs, outbox, system_state, audit_log, executed_signals,
                   oco_links, entry_buys, ops, crashed, generator>>

\* Both workers are handed the same signal, once each: s1, a TRADE on BTC/USDT.
same_signal_id ==
    /\ run.op # "execute_signal"
    /\ es_idempotency
    /\ run'.signal_id = "s1" /\ run'.verdict = "TRADE"
same_signal_payload == es_route /\ run'.symbol \in {"", "BTC/USDT"}

NextWorkers ==
    \/ same_signal_id \/ es_gates \/ same_signal_payload
    \/ es_size \/ es_guard \/ es_buy \/ es_bought
    \/ es_oco_size \/ es_oco_place \/ es_oco_reports \/ es_oco_orders \/ es_oco_validate
    \/ switch

SpecWorkers == InitWorkers /\ [][NextWorkers]_vars

\* ------------------------------------------------------------- properties
\* The rows a step appends to audit_log.
NewRows == SubSeq(audit_log', Len(audit_log) + 1, Len(audit_log'))

\* The rows the running (or last) handler has appended.
RowsOfRun == SubSeq(audit_log, run.from + 1, Len(audit_log))

EventTypes(rows) == [i \in 1..Len(rows) |-> rows[i].event_type]

\* The calls that place or cancel an order on the exchange.
OrderCalls == {"place_market_buy_by_quote", "place_oco_sell", "cancel_order",
               "place_market_sell"}

\* position of the first successful call named c in the trace, 0 if none.
FirstCall(c) ==
    IF \E i \in 1..Len(trace) : trace[i] = Call(c)
    THEN CHOOSE i \in 1..Len(trace) :
            /\ trace[i] = Call(c)
            /\ \A j \in 1..(i - 1) : trace[j] # Call(c)
    ELSE 0

\* A step that starts execute_signal.
StartsExecuteSignal == run.pc = "idle" /\ ops' = ops + 1 /\ run'.op = "execute_signal"

\* C1: invoking execute_signal twice on the same signal places exactly one
\* entry buy in total, whichever step after the accepted buy succeeded or
\* failed: short of a process crash, no signal_id ever has two accepted entry
\* buys.
C1_OneEntryBuyPerSignal ==
    ~ crashed => \A id \in SignalIds : entry_buys[id] <= 1

\* C2: while the persisted kill_switch is on, no step appends a
\* TRADE_EXECUTED or OCO_ARMED row to the audit log.
C2_NoEntryRowsUnderKillSwitch ==
    [][To_bool01(system_state.kill_switch) =>
        \A i \in 1..Len(NewRows) :
            NewRows[i].event_type \notin {"TRADE_EXECUTED", "OCO_ARMED"}]_vars

\* C2 witness: a DEMO engine, synced and ACTIVE, with only the persisted
\* kill_switch on, blocked a signal at the kill-switch gate.
C2_Witness ==
    /\ mode = "DEMO" /\ ~ env_kill_switch
    /\ system_state = [status |-> "ACTIVE", startup_sync_ok |-> 1, kill_switch |-> 1]
    /\ run.op = "execute_signal" /\ run.pc = "idle" /\ run.verdict = "TRADE"
    /\ EventTypes(RowsOfRun) = <<"EXEC_BLOCKED_KILL_SWITCH">>

\* C3: when the parsed OCO response is invalid (no listOrderId, a child id
\* missing, or the two child ids equal; an empty orderReports[] with an empty
\* orders[] is such a response), the validity check logs OCO_INVALID, sets
\* kill_switch, logs FAILSAFE_KILL_SWITCH_SET, creates no link, and the signal
\* is marked executed.
C3_InvalidOcoEntersFailsafe ==
    [][/\ OrdersFallback(ScanReports(<<>>, 1, [tp |-> "", sl |-> ""]), <<>>)
           = [tp |-> "", sl |-> ""]
       /\ (/\ run.pc = "oco_validate"
           /\ run'.pc = "idle" /\ run'.outcome # "crashed"
           /\ (run.list_order_id = "" \/ run.tp = "" \/ run.sl = "" \/ run.tp = run.sl))
          => (/\ NewRows = <<Ev("OCO_INVALID", run.signal_id),
                             Ev("FAILSAFE_KILL_SWITCH_SET", run.signal_id)>>
              /\ system_state'.kill_switch = 1
              /\ oco_links' = oco_links
              /\ signal_id_already_executed(executed_signals', run.signal_id))]_vars

\* C3 witness: a handler returned from FAILSAFE: the buy accepted, the
\* kill-switch set, no link written.
C3_Witness ==
    /\ run.op = "execute_signal" /\ run.pc = "idle" /\ run.outcome = "returned"
    /\ Len(RowsOfRun) >= 2
    /\ RowsOfRun[Len(RowsOfRun)].event_type = "FAILSAFE_KILL_SWITCH_SET"
    /\ system_state.kill_switch = 1
    /\ oco_links = <<>>
    /\ entry_buys[run.signal_id] = 1

\* C4: every ACTIVE oco_links row has a non-empty tp_order_id, a non-empty
\* sl_order_id, and the two differ.
C4_ActiveLinkIdsDistinct ==
    \A i \in 1..Len(oco_links) :
        oco_links[i].status = "ACTIVE" =>
            /\ oco_links[i].tp_order_id # ""
            /\ oco_links[i].sl_order_id # ""
            /\ oco_links[i].tp_order_id # oco_links[i].sl_order_id

\* C4 witness: an ACTIVE link whose ids came from the orders[] fallback order.
C4_Witness ==
    \E i \in 1..Len(oco_links) :
        /\ oco_links[i].status = "ACTIVE"
        /\ oco_links[i].tp_order_id = "B"
        /\ oco_links[i].sl_order_id = "A"

\* C5: at most one ACTIVE oco_links row per symbol, symbols compared
\* case-insensitively.
C5_OneActiveLinkPerSymbol ==
    \A i, j \in 1..Len(oco_links) :
        (/\ i # j
         /\ oco_links[i].status = "ACTIVE"
         /\ oco_links[j].status = "ACTIVE")
        => Upper(oco_links[i].symbol) # Upper(oco_links[j].symbol)

\* C5 witness: with an ACTIVE link on btc/usdt, an entry on the symbol was
\* rejected by the race guard.
C5_Witness ==
    /\ \E i \in 1..Len(oco_links) :
          oco_links[i].status = "ACTIVE" /\ oco_links[i].symbol = "btc/usdt"
    /\ run.op = "execute_signal" /\ run.pc = "idle"
    /\ EventTypes(RowsOfRun) = <<"EXEC_REJECT_ACTIVE_OCO_RACE">>

\* C6: the entry gates are evaluated in the order (a) already executed,
\* (b) kill-switch, (c) system state, (d) LIVE confirmation, (e) certified;
\* the outcome is that of the first failing gate, and nothing after it is
\* evaluated: the handler returns with that gate's single row, certified_signal
\* is not read before (e), and no further call is made.
C6_GateOrder ==
    [][/\ (StartsExecuteSignal /\ trace' = <<Call("signal_id_already_executed")>>)
          => IF signal_id_already_executed(executed_signals, run'.signal_id)
             THEN /\ run'.pc = "idle" /\ run'.outcome = "returned"
                  /\ NewRows = <<Ev("EXEC_DEDUPED", run'.signal_id)>>
             ELSE run'.pc = "gates" /\ NewRows = <<>>
       /\ (run.pc = "gates" /\ trace' = Append(trace, Call("get_system_state")))
          => LET stops(t, cert) ==
                    /\ run'.pc = "idle" /\ run'.outcome = "returned"
                    /\ NewRows = <<Ev(t, run.signal_id)>>
                    /\ run'.certified \in cert
             IN  IF env_kill_switch \/ system_state.kill_switch # 0
                 THEN stops("EXEC_BLOCKED_KILL_SWITCH", {"unread"})
                 ELSE IF system_state.startup_sync_ok = 0
                         \/ system_state.status \notin {"ACTIVE", "RUNNING"}
                 THEN stops("EXEC_BLOCKED_SYSTEM_STATE", {"unread"})
                 ELSE IF mode = "LIVE" /\ ~ live_confirmation
                 THEN stops("EXEC_BLOCKED_LIVE_CONFIRMATION", {"unread"})
                 ELSE IF run'.certified # "True"
                 THEN stops("REJECT_NOT_CERTIFIED", CertifiedValues)
                 ELSE run'.pc = "route" /\ NewRows = <<>>]_vars

\* C6 witness: with the persisted kill-switch on, the system not synced and
\* LIVE unconfirmed, the signal was stopped at the kill-switch gate.
C6_Witness ==
    /\ system_state.kill_switch = 1 /\ system_state.startup_sync_ok = 0
    /\ mode = "LIVE" /\ ~ live_confirmation
    /\ run.op = "execute_signal" /\ run.pc = "idle" /\ run.certified = "unread"
    /\ EventTypes(RowsOfRun) = <<"EXEC_BLOCKED_KILL_SWITCH">>
    /\ trace = <<Call("signal_id_already_executed"), Call("get_system_state")>>

\* C7: the idempotency check is the first call of execute_signal, before any
\* exchange call; when the check itself fails the handler returns at once with
\* EXEC_BLOCKED_IDEMPOTENCY_FAIL, having placed no order and marked nothing;
\* and a handler that logs TRADE_EXECUTED had a successful check first.
C7_IdempotencyFirst ==
    run.op = "execute_signal" =>
        /\ Len(trace) >= 1
        /\ trace[1].call = "signal_id_already_executed"
        /\ ~ trace[1].ok =>
              /\ Len(trace) = 1
              /\ run.pc = "idle"
              /\ RowsOfRun = <<Ev("EXEC_BLOCKED_IDEMPOTENCY_FAIL", run.signal_id)>>
        /\ (\E i \in 1..Len(RowsOfRun) : RowsOfRun[i].event_type = "TRADE_EXECUTED")
              => trace[1].ok

\* C7 witness: on a synced ACTIVE system with no kill-switch, a signal was
\* blocked because the idempotency read failed.
C7_Witness ==
    /\ system_state = [status |-> "ACTIVE", startup_sync_ok |-> 1, kill_switch |-> 0]
    /\ ~ env_kill_switch
    /\ run.op = "execute_signal" /\ run.verdict = "TRADE"
    /\ trace = <<Fail("signal_id_already_executed")>>
    /\ executed_signals = {}

\* C8: a HOLD signal places no order of any kind and simulates no entry, and
\* an entry buy is placed only for a TRADE signal.
C8_EntryOnlyForTrade ==
    run.op = "execute_signal" =>
        /\ run.verdict = "HOLD" =>
              \A i \in 1..Len(trace) :
                  trace[i].call \notin OrderCalls \cup {"simulate_market_entry"}
        /\ (\E i \in 1..Len(trace) : trace[i].call = "place_market_buy_by_quote")
              => run.verdict = "TRADE"

\* C9: the mark with action TRADE_LIVE_BUY is made after the accepted entry
\* buy and before any place_oco_sell call; the mark is never undone, and a
\* later execute_signal on a marked signal whose idempotency read succeeds is
\* DEDUPED.
C9_MarkBetweenBuyAndOco ==
    /\ [](\A i \in 1..Len(trace) :
            trace[i].call = "place_oco_sell" =>
                /\ 0 < FirstCall("place_market_buy_by_quote")
                /\ FirstCall("place_market_buy_by_quote") < FirstCall("mark_signal_id_executed")
                /\ FirstCall("mark_signal_id_executed") < i
                /\ [signal_id |-> run.signal_id, action |-> "TRADE_LIVE_BUY"]
                       \in executed_signals)
    /\ [][/\ executed_signals \subseteq executed_signals'
          /\ \A id \in SignalIds :
                ([signal_id |-> id, action |-> "TRADE_LIVE_BUY"]
                    \in executed_signals' \ executed_signals)
                => /\ run.pc = "bought" /\ run.signal_id = id
                   /\ entry_buys[id] >= 1
          /\ (/\ StartsExecuteSignal
              /\ trace' = <<Call("signal_id_already_executed")>>
              /\ [signal_id |-> run'.signal_id, action |-> "TRADE_LIVE_BUY"]
                    \in executed_signals)
             => /\ run'.pc = "idle"
                /\ NewRows = <<Ev("EXEC_DEDUPED", run'.signal_id)>>]_vars

\* C9 witness: the process crashed after the mark and before any link was
\* written, and the next execute_signal on the signal was DEDUPED.
C9_Witness ==
    /\ crashed
    /\ run.op = "execute_signal" /\ run.pc = "idle"
    /\ RowsOfRun = <<Ev("EXEC_DEDUPED", run.signal_id)>>
    /\ [signal_id |-> run.signal_id, action |-> "TRADE_LIVE_BUY"] \in executed_signals
    /\ entry_buys[run.signal_id] = 1
    /\ oco_links = <<>>

\* C10: every order-placing or order-cancelling call (market buy, OCO place,
\* leg cancel, market sell) has a kill-switch evaluation directly before it:
\* the call the handler made just before it is is_kill_switch_active.
C10_KillSwitchBeforeEachOrderCall ==
    \A i \in 1..Len(trace) :
        trace[i].call \in OrderCalls =>
            /\ i > 1
            /\ trace[i - 1].call = "is_kill_switch_active"

\* C11: when the kill-switch oracle answers true at the last gate before the
\* entry buy (the environment switch is on, the persisted flag is set, or the
\* oracle's store read failed), the handler logs
\* EXEC_BLOCKED_KILL_SWITCH_LAST_GATE and returns: it places no order and
\* does not mark the signal executed.
C11_LastGateBlocksBuy ==
    [][(/\ run.pc = "buy"
        /\ run'.outcome # "crashed"
        /\ LET e == trace'[Len(trace) + 1] IN
              env_kill_switch \/ ~ e.ok \/ system_state.kill_switch # 0)
       => /\ run'.pc = "idle" /\ run'.outcome = "returned"
          /\ NewRows = <<Ev("EXEC_BLOCKED_KILL_SWITCH_LAST_GATE", run.signal_id)>>
          /\ Len(trace') = Len(trace) + 1
          /\ trace'[Len(trace')].call = "is_kill_switch_active"
          /\ entry_buys' = entry_buys
          /\ executed_signals' = executed_signals
          /\ oco_links' = oco_links]_vars

\* C11 witness: a TRADE handler that passed every earlier gate was stopped at
\* the last gate; no order call was made and the signal is not marked.
C11_Witness ==
    /\ run.op = "execute_signal" /\ run.pc = "idle" /\ run.outcome = "returned"
    /\ RowsOfRun = <<Ev("EXEC_BLOCKED_KILL_SWITCH_LAST_GATE", run.signal_id)>>
    /\ trace[Len(trace)] = Oracle(FALSE)
    /\ \A i \in 1..Len(trace) : trace[i].call \notin OrderCalls
    /\ ~ signal_id_already_executed(executed_signals, run.signal_id)
    /\ entry_buys[run.signal_id] = 0

\* C12: when the entry buy has filled and place_oco_sell raises, the handler
\* engages FAILSAFE: once execute_signal has returned, the persisted
\* kill_switch is on (or the bought entry has an ACTIVE link).
C12_OcoPlaceErrorEngagesFailsafe ==
    (/\ run.op = "execute_signal" /\ run.pc = "idle" /\ run.outcome = "returned"
     /\ entry_buys[run.signal_id] >= 1
     /\ \E i \in 1..Len(trace) : trace[i] = Fail("place_oco_sell"))
    => \/ system_state.kill_switch # 0
       \/ \E k \in 1..Len(oco_links) :
             /\ oco_links[k].signal_id = run.signal_id
             /\ oco_links[k].status = "ACTIVE"

\* C13: a TRADE signal in LIVE or TESTNET mode that passed the gates and
\* whose quote_amount (given, or position_size times the last price) is below
\* get_min_notional(symbol) is rejected with exactly one
\* EXEC_REJECT_MIN_NOTIONAL row, is marked executed, and no order is placed,
\* also when the quote is one unit below the minimum.
C13_BelowMinNotionalRejected ==
    [][(/\ run.pc = "guard"
        /\ run'.outcome # "crashed"
        /\ run.quote < get_min_notional(run.symbol))
       => /\ run'.pc = "idle" /\ run'.outcome = "returned"
          /\ NewRows = <<Ev("EXEC_REJECT_MIN_NOTIONAL", run.signal_id)>>
          /\ signal_id_already_executed(executed_signals', run.signal_id)
          /\ \A i \in 1..Len(trace') : trace'[i].call \notin OrderCalls
          /\ entry_buys' = entry_buys]_vars

\* The audit rows and mark actions of the four terminal rejections.
TerminalRejections ==
    {"EXEC_REJECT_MIN_NOTIONAL", "EXEC_REJECT_ACTIVE_OCO_RACE", "EXEC_REJECT_EDGE_GATE",
     "EXEC_REJECT_LIVE_BLOCKED"}

RejectActions ==
    {"REJECT_MIN_NOTIONAL", "REJECT_ACTIVE_OCO_RACE", "REJECT_EDGE_GATE",
     "REJECT_LIVE_BLOCKED"}

\* C14: a handler that ends in a terminal rejection (min-notional, active-OCO
\* race, edge gate, adapter live-blocked) has marked the signal executed and
\* placed no entry order, and a later execute_signal on that signal whose
\* idempotency read succeeds is DEDUPED.
C14_TerminalRejectionsMarked ==
    /\ []((/\ run.op = "execute_signal" /\ run.pc = "idle" /\ run.outcome = "returned"
           /\ RowsOfRun # <<>>
           /\ RowsOfRun[Len(RowsOfRun)].event_type \in TerminalRejections)
          => /\ \E a \in RejectActions :
                  [signal_id |-> run.signal_id, action |-> a] \in executed_signals
             /\ trace[Len(trace)] = Call("mark_signal_id_executed")
             /\ \A i \in 1..Len(trace) : trace[i].call \notin OrderCalls
             /\ Len(RowsOfRun) = 1)
    /\ [][(/\ StartsExecuteSignal
           /\ trace' = <<Call("signal_id_already_executed")>>
           /\ \E a \in RejectActions :
                 [signal_id |-> run'.signal_id, action |-> a] \in executed_signals)
          => /\ run'.pc = "idle"
             /\ NewRows = <<Ev("EXEC_DEDUPED", run'.signal_id)>>]_vars

\* C14 witness: the adapter refused the entry (symbol off the whitelist or
\* quote over the cap), the signal was marked, and its replay was DEDUPED
\* with no entry buy ever placed for it.
C14_Witness ==
    /\ run.op = "execute_signal" /\ run.pc = "idle"
    /\ RowsOfRun = <<Ev("EXEC_DEDUPED", run.signal_id)>>
    /\ [signal_id |-> run.signal_id, action |-> "REJECT_LIVE_BLOCKED"] \in executed_signals
    /\ \E i \in 1..Len(audit_log) :
          audit_log[i] = Ev("EXEC_REJECT_LIVE_BLOCKED", run.signal_id)
    /\ entry_buys[run.signal_id] = 0

\* C15: when the call that places the entry order raises a transient error,
\* the handler logs EXEC_LIVE_ERROR and returns without marking the signal
\* executed, so a later execute_signal on the same signal passes the
\* idempotency check and goes on to the gates.
C15_EntryErrorIsRetryable ==
    /\ []((/\ run.op = "execute_signal" /\ run.pc = "idle" /\ run.outcome = "returned"
           /\ \E i \in 1..Len(trace) : trace[i] = Fail("place_market_buy_by_quote"))
          => /\ RowsOfRun = <<Ev("EXEC_LIVE_ERROR", run.signal_id)>>
             /\ ~ signal_id_already_executed(executed_signals, run.signal_id))
    /\ [][(/\ StartsExecuteSignal
           /\ trace' = <<Call("signal_id_already_executed")>>
           /\ ~ signal_id_already_executed(executed_signals, run'.signal_id))
          => /\ run'.pc = "gates"
             /\ NewRows = <<>>]_vars

\* C15 witness: the entry buy raised; the handler returned with
\* EXEC_LIVE_ERROR as its only row and the signal unmarked, no buy accepted,
\* and the worker can call execute_signal again.
C15_Witness ==
    /\ run.op = "execute_signal" /\ run.pc = "idle" /\ run.outcome = "returned"
    /\ trace[Len(trace)] = Fail("place_market_buy_by_quote")
    /\ RowsOfRun = <<Ev("EXEC_LIVE_ERROR", run.signal_id)>>
    /\ ~ signal_id_already_executed(executed_signals, run.signal_id)
    /\ entry_buys[run.signal_id] = 0
    /\ ops < MaxOps

\* The audit rows of the safety blocks: kill-switch active (at gate (b) or at
\* a last gate), live-confirmation off, and the adapter's refusal (symbol not
\* whitelisted, per-trade cap exceeded).
SafetyBlocks ==
    {"EXEC_BLOCKED_KILL_SWITCH", "EXEC_BLOCKED_KILL_SWITCH_LAST_GATE",
     "EXEC_BLOCKED_LIVE_CONFIRMATION", "EXEC_REJECT_LIVE_BLOCKED"}

\* C16: a safety block is non-retryable: when execute_signal has returned on
\* a kill-switch block, a live-confirmation block, or an adapter refusal for
\* a symbol off the whitelist or a quote over the per-trade cap, the signal
\* is marked executed.
C16_SafetyBlocksMarked ==
    (/\ run.op = "execute_signal" /\ run.pc = "idle" /\ run.outcome = "returned"
     /\ RowsOfRun # <<>>
     /\ RowsOfRun[Len(RowsOfRun)].event_type \in SafetyBlocks)
    => signal_id_already_executed(executed_signals, run.signal_id)

\* C17: is_kill_switch_active() answers true if the environment flag is
\* truthy or the persisted system_state.kill_switch is truthy, answers false
\* only when both are falsy and the store was read, and answers true on any
\* store read failure.  Truthy is what the configuration reader (_env_bool)
\* and _to_bool01 accept.
C17_OracleFusesFlags ==
    \A raw \in EnvValues, read_ok \in BOOLEAN :
        is_kill_switch_active(env_kill_of(raw), system_state, read_ok)
            = (env_bool(raw) \/ To_bool01(system_state.kill_switch) \/ ~ read_ok)

\* C18: once system_state.kill_switch is on (set by FAILSAFE or by startup
\* sync), no step of execute_signal, the SELL handler, reconcile_oco or
\* run_startup_sync turns it off, and no step taken while it is on places or
\* cancels an order or has an entry buy accepted.
C18_KillSwitchIsTerminal ==
    [][To_bool01(system_state.kill_switch)
       => /\ To_bool01(system_state'.kill_switch)
          /\ entry_buys' = entry_buys
          /\ \A i \in 1..Len(trace') :
                trace'[i].call \in OrderCalls
                => i <= Len(trace) /\ trace'[i] = trace[i]]_vars

\* C18 witness: FAILSAFE set the kill-switch after an invalid OCO response,
\* and the next execute_signal was blocked at the kill-switch gate with the
\* flag still on.
C18_Witness ==
    /\ run.op = "execute_signal" /\ run.pc = "idle" /\ run.outcome = "returned"
    /\ RowsOfRun = <<Ev("EXEC_BLOCKED_KILL_SWITCH", run.signal_id)>>
    /\ \E i \in 1..run.from : audit_log[i].event_type = "FAILSAFE_KILL_SWITCH_SET"
    /\ ~ env_kill_switch
    /\ To_bool01(system_state.kill_switch)

\* The status the classification rule gives a link whose legs report the
\* lower-cased statuses tp and sl.
Classified(tp, sl) ==
    IF sl \in {"closed", "filled"} THEN "CLOSED_SL"
    ELSE IF tp \in {"closed", "filled"} THEN "CLOSED_TP"
    ELSE IF tp \in {"canceled", "cancelled", "expired", "rejected"}
            /\ sl \in {"canceled", "cancelled", "expired", "rejected"} THEN "FAILED"
    ELSE "ACTIVE"

\* C19: reconcile_oco classifies each ACTIVE link from the lower-cased
\* statuses of its two legs: SL closed or filled gives CLOSED_SL with an
\* OCO_CLOSED row; otherwise TP closed or filled gives CLOSED_TP with an
\* OCO_CLOSED row; both legs canceled, expired or rejected gives FAILED with
\* an OCO_FAILED row; one leg canceled with the other open, and every other
\* pair, leaves the link ACTIVE with no row.  No other link is touched.
C19_ReconcileClassification ==
    \A k \in 1..Len(oco_links) :
        oco_links[k].status = "ACTIVE" =>
            \A tp \in RawStatuses \cup {"cancelled", "rejected"},
               sl \in RawStatuses \cup {"cancelled", "rejected"} :
                LET c == ReconcileLink(Cur, oco_links[k], [fetch |-> "ok", tp |-> tp, sl |-> sl])
                    status == Classified(Norm(tp), Norm(sl))
                IN /\ c.links[k].status = status
                   /\ \A j \in 1..Len(oco_links) : j # k => c.links[j] = oco_links[j]
                   /\ c.aud = IF status \in {"CLOSED_SL", "CLOSED_TP"}
                               THEN Append(audit_log, Ev("OCO_CLOSED", oco_links[k].signal_id))
                               ELSE IF status = "FAILED"
                               THEN Append(audit_log, Ev("OCO_FAILED", oco_links[k].signal_id))
                               ELSE audit_log

\* C19 witness: a sweep found both legs of an armed link canceled and moved
\* the link to FAILED with an OCO_FAILED row.
C19_Witness ==
    /\ run.op = "reconcile_oco" /\ run.pc = "idle"
    /\ RowsOfRun # <<>>
    /\ RowsOfRun[Len(RowsOfRun)].event_type = "OCO_FAILED"
    /\ \E k \in 1..Len(oco_links) : oco_links[k].status = "FAILED"

\* C20: when a reconcile_oco sweep has moved a link to a terminal status and
\* a trades row exists for the link's signal_id, the sweep has closed the
\* trade: the row's exit_price, closed_at, outcome, pnl_quote and pnl_pct are
\* set.
C20_ReconcileClosesTrade ==
    (run.op = "reconcile_oco" /\ run.pc = "idle" /\ run.outcome = "returned")
    => \A i \in 1..Len(RowsOfRun) :
          RowsOfRun[i].event_type = "OCO_CLOSED" =>
              \A t \in get_trade(trades, RowsOfRun[i].signal_id) :
                  /\ t.exit_price # "NULL" /\ t.closed_at # "NULL"
                  /\ t.outcome # "NULL"
                  /\ t.pnl_quote # "NULL" /\ t.pnl_pct # "NULL"

\* The links a sweep lists that it leaves ACTIVE although their legs give a
\* terminal status.
KeptDespiteLegs ==
    LET rows == list_active_oco_links(oco_links, ACTIVE_LINK_LIMIT) IN
    {r \in {rows[k] : k \in 1..Len(rows)} :
        /\ oco_links'[r].status = "ACTIVE"
        /\ Classified(Norm(legs[r].tp), Norm(legs[r].sl)) # "ACTIVE"}

\* C21: a sweep of reconcile_oco in which the fetch or the update of one
\* ACTIVE link raises leaves that link ACTIVE, still classifies every other
\* listed link from its legs, and returns: the failure does not leave
\* reconcile_oco.
C21_SweepToleratesLinkFailure ==
    [][LET rows == list_active_oco_links(oco_links, ACTIVE_LINK_LIMIT)
           failed == Len(SelectSeq(trace', LAMBDA e : ~ e.ok))
       IN  /\ run'.op = "reconcile_oco" /\ run'.pc = "idle" /\ run'.outcome = "returned"
           /\ Cardinality(KeptDespiteLegs) <= failed
           /\ failed <= 1
           /\ \A k \in 1..Len(rows) :
                 rows[k] \notin KeptDespiteLegs =>
                     oco_links'[rows[k]].status
                         = Classified(Norm(legs[rows[k]].tp), Norm(legs[rows[k]].sl))]_vars

\* C21 witness: in one sweep the fetch of the newest link raised and the
\* link stayed ACTIVE with a filled leg, while the oldest link, swept after
\* it, was moved to its terminal status.
C21_Witness ==
    /\ run.op = "reconcile_oco" /\ run.pc = "idle" /\ run.outcome = "returned"
    /\ trace = <<Fail("fetch_order")>>
    /\ Len(oco_links) > 1
    /\ oco_links[Len(oco_links)].status = "ACTIVE"
    /\ Norm(legs[Len(oco_links)].tp) \in CLOSED
    /\ oco_links[1].status = "CLOSED_SL"
    /\ RowsOfRun = <<Ev("OCO_CLOSED", oco_links[1].signal_id)>>

\* Link k is ACTIVE in the store while the exchange has filled one of its legs.
FilledAndActive(k) ==
    /\ k <= Len(oco_links)
    /\ oco_links[k].status = "ACTIVE"
    /\ (Norm(legs[k].tp) \in CLOSED \/ Norm(legs[k].sl) \in CLOSED)

\* C22: under repeated sweeps in which fetch_order answers in the end, every
\* ACTIVE link with a filled TP or SL leg is eventually moved to CLOSED_TP or
\* CLOSED_SL, for any number of ACTIVE links: none is skipped forever.
C22_FilledLinksEventuallyClosed ==
    \A k \in (1..MaxLinks) \cup {ACTIVE_LINK_LIMIT + 1} :
        FilledAndActive(k)
            ~> (k <= Len(oco_links) /\ oco_links[k].status \in {"CLOSED_TP", "CLOSED_SL"})

\* The ACTIVE links the SELL handler of the running signal works on.
SellRows == RowsOfSymbol(list_active_oco_links(oco_links, ACTIVE_LINK_LIMIT), run.symbol)

\* The calls the running step has added to the trace.
NewCalls == SubSeq(trace', Len(trace) + 1, Len(trace'))

\* C23: the SELL handler in LIVE or TESTNET, for each ACTIVE link of the
\* signal's symbol whose legs it could fetch: a TP leg closed or filled
\* gives CLOSED_TP, else an SL leg closed or filled gives CLOSED_SL, both
\* with a SELL_SKIP row and no cancel; otherwise one cancel per leg is sent,
\* its failure swallowed, and the link becomes CANCELED_BY_SIGNAL with an
\* OCO_CANCELED row.  Such a link is no longer ACTIVE, no other link is
\* touched, and the loop as a whole sends two cancels per link it moved to
\* CANCELED_BY_SIGNAL and none for the others.
C23_SellHandlerSettlesLinks ==
    [][(run.pc = "sell_links" /\ run'.pc = "sell_out") =>
        /\ \A n \in 1..Len(SellRows) : \A out \in SellLinkOutcomes :
             LET k == SellRows[n]
                 c == SellLink(Cur, oco_links[k], out)
                 sent == SubSeq(c.tr, Len(trace) + 1, Len(c.tr))
                 tp_closed == Norm(out.tp) \in {"closed", "filled"}
                 sl_closed == Norm(out.sl) \in {"closed", "filled"}
             IN  out.fetch = "ok" =>
                 /\ c.links[k].status =
                        IF tp_closed THEN "CLOSED_TP"
                        ELSE IF sl_closed THEN "CLOSED_SL" ELSE "CANCELED_BY_SIGNAL"
                 /\ \A j \in 1..Len(oco_links) : j # k => c.links[j] = oco_links[j]
                 /\ IF tp_closed \/ sl_closed
                    THEN sent = <<>> /\ c.aud = Append(audit_log, Ev("SELL_SKIP", run.signal_id))
                    ELSE /\ Len(sent) = 2
                         /\ \A i \in 1..2 : sent[i].call = "cancel_order"
                         /\ sent[1].ok = (out.cancel = "ok")
                         /\ c.aud = Append(audit_log, Ev("OCO_CANCELED", run.signal_id))
        /\ \A k \in 1..Len(oco_links) :
             IF \E n \in 1..Len(SellRows) : SellRows[n] = k
             THEN oco_links'[k].status \in
                    {"ACTIVE", "CLOSED_TP", "CLOSED_SL", "CANCELED_BY_SIGNAL"}
             ELSE oco_links'[k] = oco_links[k]
        /\ Len(NewCalls) =
             2 * Cardinality({k \in 1..Len(oco_links) :
                                /\ oco_links[k].status = "ACTIVE"
                                /\ oco_links'[k].status = "CANCELED_BY_SIGNAL"})
        /\ \A i \in 1..Len(NewCalls) : NewCalls[i].call = "cancel_order"
        /\ Len(NewRows) =
             Cardinality({k \in 1..Len(oco_links) :
                            oco_links[k].status # oco_links'[k].status})]_vars

\* C23 witness: a SELL signal found the armed link of its symbol with both
\* legs open, sent the two cancels and left the link CANCELED_BY_SIGNAL.
C23_Witness ==
    /\ run.pc = "sell_out"
    /\ Len(trace) >= 2
    /\ trace[Len(trace)].call = "cancel_order"
    /\ trace[Len(trace) - 1].call = "cancel_order"
    /\ RowsOfRun # <<>>
    /\ RowsOfRun[Len(RowsOfRun)].event_type = "OCO_CANCELED"
    /\ \E k \in 1..Len(oco_links) :
         oco_links[k].status = "CANCELED_BY_SIGNAL" /\ Upper(oco_links[k].symbol) = Upper(run.symbol)

\* C24: a SELL signal in LIVE or TESTNET: an accepted market sell marks the
\* signal executed with action SELL_LIVE; no free base marks it executed
\* with SELL_NO_FREE_BASE and places no sell; a failed sell order leaves the
\* signal unmarked; a SELL blocked by the kill-switch sends no cancel and no
\* sell.
C24_SellMarking ==
    (run.op = "execute_signal" /\ run.verdict = "SELL" /\ run.pc = "idle"
        /\ run.outcome = "returned")
    => /\ (\E i \in 1..Len(trace) : trace[i] = Call("place_market_sell"))
            => \E r \in executed_signals :
                 r.signal_id = run.signal_id /\ r.action = "SELL_LIVE"
       /\ (\E i \in 1..Len(RowsOfRun) : RowsOfRun[i].event_type = "SELL_SKIP_NO_FREE_BASE")
            => /\ \E r \in executed_signals :
                    r.signal_id = run.signal_id /\ r.action = "SELL_NO_FREE_BASE"
               /\ \A i \in 1..Len(trace) : trace[i].call # "place_market_sell"
       /\ (\E i \in 1..Len(trace) : trace[i] = Fail("place_market_sell"))
            => ~ signal_id_already_executed(executed_signals, run.signal_id)
       /\ (\E i \in 1..Len(RowsOfRun) :
              RowsOfRun[i].event_type = "SELL_BLOCKED_KILL_SWITCH_LAST_GATE")
            => \A i \in 1..Len(trace) :
                 trace[i].call \notin {"cancel_order", "place_market_sell"}

\* A step that is a whole run of run_startup_sync.
StartupSyncRuns == run.pc = "idle" /\ ops' = ops + 1 /\ run'.op = "run_startup_sync"

\* What run_startup_sync leaves: status, startup_sync_ok and its result.
StartupSyncLeaves(status, sync_ok, result) ==
    /\ system_state'.status = status
    /\ system_state'.startup_sync_ok = sync_ok
    /\ run'.result = result

\* C25: run_startup_sync maps the boot conditions to the state and the
\* result: kill-switch active (environment flag or persisted flag) gives
\* KILLED, startup_sync_ok false, failure; otherwise DEMO gives ACTIVE, true,
\* success; otherwise a failed public or private probe gives PAUSED, false,
\* failure; otherwise open positions give PAUSED, failure; otherwise ACTIVE,
\* true, success.  The result is success exactly when the run leaves ACTIVE
\* with startup_sync_ok true.
C25_StartupSyncMapping ==
    [][StartupSyncRuns =>
        LET probes_ok == \E i \in 1..Len(NewRows) :
                            NewRows[i].event_type = "EXCHANGE_PRIVATE_OK"
        IN  /\ IF env_kill_switch \/ system_state.kill_switch = 1
               THEN StartupSyncLeaves("KILLED", 0, "False")
               ELSE IF mode = "DEMO" THEN StartupSyncLeaves("ACTIVE", 1, "True")
               ELSE IF ~ probes_ok THEN StartupSyncLeaves("PAUSED", 0, "False")
               ELSE IF open_positions > 0
               THEN system_state'.status = "PAUSED" /\ run'.result = "False"
               ELSE StartupSyncLeaves("ACTIVE", 1, "True")
            /\ run'.result = "True" <=>
                 (system_state'.status = "ACTIVE" /\ system_state'.startup_sync_ok = 1)]_vars

\* Is a what is left of b after dropping some of its elements?
RECURSIVE Embeds(_, _)
Embeds(a, b) ==
    IF a = <<>> THEN TRUE
    ELSE IF b = <<>> THEN FALSE
    ELSE IF Head(a) = Head(b) THEN Embeds(Tail(a), Tail(b))
    ELSE Embeds(a, Tail(b))

\* C26: the outbox is a FIFO queue under a single writer: the heads taken
\* off the file followed by what the file holds are the appended signals in
\* append order; pop_next_signal returns the head it took off, so the
\* returned signals come in append order, each at most once, and the file
\* holds the remainder; on an empty queue it returns None and the queue
\* stays empty.
C26_OutboxIsFifo ==
    /\ outbox.removed \o outbox.file.signals = outbox.appended
    /\ Embeds(outbox.popped, outbox.removed)
    /\ (outbox.call.op = "pop_next_signal" /\ outbox.call.pc = "return")
        => IF outbox.call.result = <<>>
           THEN outbox.file = [state |-> "json", signals |-> <<>>]
           ELSE /\ outbox.call.result[1] = outbox.removed[Len(outbox.removed)]
                /\ outbox.file.signals = outbox.call.signals

\* C26 witness: two different signals were appended, one pop returned the
\* first and the file holds the second.
C26_Witness ==
    /\ outbox.call.op = "pop_next_signal" /\ outbox.call.pc = "idle"
    /\ outbox.call.outcome = "returned"
    /\ Len(outbox.appended) = 2 /\ outbox.appended[1] # outbox.appended[2]
    /\ outbox.popped = <<outbox.appended[1]>>
    /\ outbox.file.signals = <<outbox.appended[2]>>

\* The content fingerprint of a signal: it leaves the signal_id out.
fingerprint(signal) == signal.content

\* C27: append is a no-op for a semantic duplicate: no two queued entries
\* (the queue is shorter than the dedupe window) have the same content
\* fingerprint, whatever their signal_ids, and every queued entry carries a
\* _fingerprint.
C27_AppendDedupes ==
    LET signals == outbox.file.signals IN
    /\ \A i, j \in 1..Len(signals) :
         i # j => fingerprint(signals[i]) # fingerprint(signals[j])
    /\ \A i \in 1..Len(signals) : "_fingerprint" \in DOMAIN signals[i]

\* C28: partial writes of the outbox are never observable: before and after
\* every step of ensure_signal_outbox_exists, append_signal and
\* pop_next_signal, a crash included, the file is absent or a complete
\* document; a step that changes the file puts the whole content the
\* running operation is to leave in place of the content before it: the
\* empty list of a created file, the list with the signal appended, or the
\* list without its head.
C28_NoPartialWrite ==
    [][/\ outbox.file.state \in {"absent", "json"}
       /\ outbox'.file.state \in {"absent", "json"}
       /\ outbox'.file # outbox.file =>
            /\ outbox.call.pc = "replace"
            /\ outbox'.file.state = "json"
            /\ outbox'.file.signals =
                 IF outbox.call.after # "return" \/ outbox.call.op = "ensure_signal_outbox_exists"
                 THEN <<>>
                 ELSE IF outbox.call.op = "append_signal"
                 THEN Append(outbox.file.signals, outbox.call.signal[1])
                 ELSE Tail(outbox.file.signals)]_vars

\* C28 witness: the process died while the temporary file of an append was
\* half written; the outbox file still holds the queue of before.
C28_Witness ==
    /\ outbox.call.op = "append_signal" /\ outbox.call.pc = "idle"
    /\ outbox.call.outcome = "crashed"
    /\ outbox.tmp.state = "partial"
    /\ outbox.file.state = "json" /\ outbox.file.signals # <<>>
    /\ outbox.file.signals = outbox.appended

\* The audit row that tells the terminal action a mark stands for.
TerminalEventOf ==
    [TRADE_DEMO |-> "TRADE_EXECUTED", TRADE_LIVE_BUY |-> "TRADE_EXECUTED",
     REJECT_EDGE_GATE |-> "EXEC_REJECT_EDGE_GATE",
     REJECT_ACTIVE_OCO_RACE |-> "EXEC_REJECT_ACTIVE_OCO_RACE",
     REJECT_MIN_NOTIONAL |-> "EXEC_REJECT_MIN_NOTIONAL",
     REJECT_LIVE_BLOCKED |-> "EXEC_REJECT_LIVE_BLOCKED",
     SELL_DEMO |-> "SELL_DEMO", SELL_NO_FREE_BASE |-> "SELL_SKIP_NO_FREE_BASE",
     SELL_LIVE |-> "SELL_LIVE_OK"]

\* C29: executed_signals holds at most one row per signal_id and its rows
\* are never changed or removed: a mark for a signal_id that has a row,
\* whatever its action, leaves the table as it is; a step inserts a row only
\* for the running signal, together with the audit row of a successful or
\* definitively rejected terminal action, and a TRADE_LIVE_BUY row only
\* after the exchange accepted the entry buy.
C29_ExecutedSignalsInsertOnce ==
    [][/\ \A r1, r2 \in executed_signals' : r1.signal_id = r2.signal_id => r1 = r2
       /\ executed_signals \subseteq executed_signals'
       /\ \A r \in executed_signals : \A action \in DOMAIN TerminalEventOf :
            mark_signal_id_executed(executed_signals, r.signal_id, action) = executed_signals
       /\ \A r \in executed_signals' \ executed_signals :
            /\ r.signal_id = run.signal_id
            /\ r.action \in DOMAIN TerminalEventOf
            /\ NewRows # <<>>
            /\ NewRows[Len(NewRows)].event_type = TerminalEventOf[r.action]
            /\ r.action = "TRADE_LIVE_BUY" => entry_buys[r.signal_id] >= 1
            /\ r.action = "SELL_LIVE" => trace'[Len(trace') - 1] = Call("place_market_sell")]_vars

\* C29 witness: the signal was marked TRADE_LIVE_BUY after its entry buy;
\* it came again and was refused as already executed: its row is the only
\* one and still says TRADE_LIVE_BUY.
C29_Witness ==
    /\ run.op = "execute_signal" /\ run.pc = "idle"
    /\ EventTypes(RowsOfRun) = <<"EXEC_DEDUPED">>
    /\ executed_signals = {[signal_id |-> run.signal_id, action |-> "TRADE_LIVE_BUY"]}
    /\ entry_buys[run.signal_id] = 1

\* The ACTIVE links a reconcile_oco sweep lists and works on: those with
\* both leg ids.
SweptLinks ==
    LET rows == list_active_oco_links(oco_links, ACTIVE_LINK_LIMIT) IN
    {k \in 1..Len(oco_links) :
        /\ \E n \in 1..Len(rows) : rows[n] = k
        /\ oco_links[k].tp_order_id # "" /\ oco_links[k].sl_order_id # ""}

\* C30: every gate decision, order placement and reconciliation outcome
\* appends at least one audit_log row: execute_signal and the SELL handler
\* leave at least one new row on every return path, a reconcile_oco sweep
\* leaves at least one new row per link it worked on (terminal transition,
\* kept ACTIVE, fetch failure), and rows are only ever appended.
C30_EveryOutcomeAudited ==
    [][/\ Len(audit_log') >= Len(audit_log)
       /\ SubSeq(audit_log', 1, Len(audit_log)) = audit_log
       /\ (run'.op = "execute_signal" /\ run'.pc = "idle" /\ run'.outcome = "returned"
             /\ (run.pc # "idle" \/ ops' = ops + 1))
            => Len(audit_log') > run'.from
       /\ (run.pc = "idle" /\ ops' = ops + 1 /\ run'.op = "reconcile_oco")
            => Len(NewRows) >= Cardinality(SweptLinks)]_vars

HappyPath ==
    /\ mode = "LIVE" /\ live_confirmation /\ ~ env_kill_switch /\ tp_pct = 130
    /\ run.op = "execute_signal" /\ run.verdict = "TRADE"
    /\ run.symbol = "BTC/USDT" /\ run.buy_avg = 10000000 /\ run.free_base = 15000

\* The rows of the run hold TRADE_EXECUTED and, after it, OCO_ARMED.
ExecutedThenArmed(rows) ==
    \E i, j \in 1..Len(rows) :
        /\ i < j
        /\ rows[i].event_type = "TRADE_EXECUTED"
        /\ rows[j].event_type = "OCO_ARMED"

\* The sized OCO of the scenario: 0.00014 base, 101300.00, 99300.00, 99151.05.
C32_Sized ==
    /\ sell_amount_of(15000) = 14000
    /\ \A errs \in [1..3 -> FloatErrs] :
          oco_prices(10000000, 130, errs) =
              [tp_price |-> 10130000, sl_stop_price |-> 9930000,
               sl_limit_price |-> 9915105]
    /\ (HappyPath /\ run.pc \in {"oco_place", "oco_parse", "oco_orders", "oco_validate"})
          => /\ run.sell_amount = 14000
             /\ run.tp_price = 10130000
             /\ run.sl_stop_price = 9930000
             /\ run.sl_limit_price = 9915105

\* The last step of the scenario: list id L1, TP id A, STOP id B.
C32_Armed ==
    (HappyPath /\ run.pc = "oco_validate" /\ run'.outcome = "returned"
        /\ run.list_order_id = "L1" /\ run.tp = "A" /\ run.sl = "B")
    => /\ Cardinality({r \in executed_signals' : r.signal_id = run.signal_id}) = 1
       /\ Cardinality({k \in 1..Len(oco_links') :
                          /\ oco_links'[k].signal_id = run.signal_id
                          /\ oco_links'[k].status = "ACTIVE"}) = 1
       /\ \E k \in 1..Len(oco_links') :
             /\ oco_links'[k].signal_id = run.signal_id
             /\ oco_links'[k].status = "ACTIVE"
             /\ oco_links'[k].symbol = "BTC/USDT"
             /\ oco_links'[k].tp_order_id = "A"
             /\ oco_links'[k].sl_order_id = "B"
       /\ ExecutedThenArmed(SubSeq(audit_log', run.from + 1, Len(audit_log')))

OcoCalls(tr) == Cardinality({i \in 1..Len(tr) : tr[i].call = "place_oco_sell"})

\* amount is free x buffer cut down to the lot step.
IsFloored(amount, free, buffer) ==
    /\ amount % LOT_STEP = 0
    /\ amount * 1000 <= free * buffer
    /\ free * buffer < (amount + LOT_STEP) * 1000

\* The sizing, and what is in flight after it.
C33_Sized ==
    /\ \A free \in FreeBases :
          /\ IsFloored(floor_amount(free, SELL_BUFFER), free, SELL_BUFFER)
          /\ IsFloored(floor_amount(free, SELL_RETRY_BUFFER), free, SELL_RETRY_BUFFER)
          /\ sell_amount_of(free) =
                IF floor_amount(free, SELL_BUFFER) > 0
                THEN floor_amount(free, SELL_BUFFER)
                ELSE floor_amount(free, SELL_RETRY_BUFFER)
    /\ run.pc \in {"oco_place", "oco_parse", "oco_orders", "oco_validate"}
          => /\ run.sell_amount = sell_amount_of(run.free_base)
             /\ run.sell_amount > 0
    /\ run.pc \in {"oco_size", "oco_place"} => OcoCalls(trace) = 0
    /\ OcoCalls(trace) <= 1

\* The step that sizes the OCO: with OCO_SKIP_NO_FREE_BASE it stops, no OCO, no link.
C33_Skip ==
    (run.pc = "oco_size" /\ Len(NewRows) = 1
        /\ NewRows[1].event_type = "OCO_SKIP_NO_FREE_BASE")
    => /\ run'.pc = "idle"
       /\ OcoCalls(trace') = 0
       /\ oco_links' = oco_links

\* The step that places the OCO, stopped neither by the kill-switch gate nor
\* by the adapter's guard: one OCO, of the sized amount.
C33_Place ==
    (run.pc = "oco_place" /\ run'.outcome # "crashed"
        /\ \A i \in 1..Len(NewRows) :
              NewRows[i].event_type \notin {"EXEC_BLOCKED_KILL_SWITCH_LAST_GATE",
                                           "EXEC_REJECT_LIVE_BLOCKED"})
    => OcoCalls(trace') = 1 /\ run.sell_amount > 0

\* The step that places the OCO, as the claim words it.
C33_PlaceAlways ==
    (run.pc = "oco_place" /\ run'.outcome # "crashed")
    => OcoCalls(trace') = 1 /\ run.sell_amount > 0

SyncFailedState ==
    /\ system_state.status \in {"KILLED", "PAUSED"}
    /\ system_state.startup_sync_ok = 0

\* system_state as a successful run_startup_sync wrote it, no kill-switch.
SyncOkState ==
    /\ system_state.status = "ACTIVE"
    /\ system_state.startup_sync_ok = 1
    /\ system_state.kill_switch = 0
    /\ ~ env_kill_switch

\* run_startup_sync returns failure only with KILLED or PAUSED written.
C34_FailureWritten ==
    (StartupSyncRuns /\ run'.result = "False") => SyncFailedState'

\* The gates of execute_signal under the state of a failed sync: blocked.
C34_GateBlocks ==
    (run.pc = "gates" /\ SyncFailedState /\ run'.outcome = "returned")
    => /\ run'.pc = "idle"
       /\ Len(NewRows) = 1
       /\ NewRows[1].event_type \in {"EXEC_BLOCKED_KILL_SWITCH", "EXEC_BLOCKED_SYSTEM_STATE"}
       /\ system_state' = system_state

\* The gates under the state of a successful sync: (b) and (c) let a signal through.
C34_GatePasses ==
    (run.pc = "gates" /\ SyncOkState /\ run'.outcome \notin {"raised", "crashed"})
    => \A i \in 1..Len(NewRows) :
          NewRows[i].event_type \notin {"EXEC_BLOCKED_KILL_SWITCH", "EXEC_BLOCKED_SYSTEM_STATE"}

\* Under the state of a failed sync no execute_signal is past the gates and
\* none has called the exchange for an order.
C34_NoOrder ==
    (SyncFailedState /\ run.op = "execute_signal")
    => /\ run.pc \in {"idle", "gates"}
       /\ \A i \in 1..Len(trace) : trace[i].call \notin OrderCalls

\* C34: run_startup_sync returns failure only with KILLED or PAUSED and
\* startup_sync_ok false written; while system_state stays so, every
\* execute_signal that comes to the gates is blocked there and none places
\* an order.  After a success, with no kill-switch, the kill-switch gate
\* and the system-state gate let the signal through.
C34_StartupSyncGatesWorker ==
    [] C34_NoOrder /\ [][C34_FailureWritten /\ C34_GateBlocks /\ C34_GatePasses]_vars

\* After a failed sync (a probe failed) a signal was blocked at the gate.
C34_Witness ==
    /\ SyncFailedState /\ system_state.status = "PAUSED"
    /\ run.op = "execute_signal" /\ run.pc = "idle"
    /\ \E i \in 1..Len(audit_log) : audit_log[i].event_type = "EXCHANGE_CONNECT_FAIL"
    /\ audit_log[Len(audit_log)] = Ev("EXEC_BLOCKED_SYSTEM_STATE", run.signal_id)

\* ---------------------------------------------------------------- C35
TerminalStatuses == {"CLOSED_TP", "CLOSED_SL", "CANCELED_BY_SIGNAL", "FAILED"}

\* No step changes the status of a link that has a terminal status, or
\* drops a row.
C35_Absorbing ==
    /\ Len(oco_links') >= Len(oco_links)
    /\ \A k \in 1..Len(oco_links) :
          /\ oco_links'[k].id = oco_links[k].id
          /\ oco_links[k].status \in TerminalStatuses
                => oco_links'[k].status = oco_links[k].status

\* A new row is ACTIVE and comes from the last step of execute_signal's entry path.
C35_CreatedActive ==
    \A k \in (Len(oco_links) + 1)..Len(oco_links') :
        /\ oco_links'[k].status = "ACTIVE"
        /\ run.op = "execute_signal" /\ run.pc = "oco_validate"
        /\ oco_links'[k].signal_id = run.signal_id

\* C35: a link whose status is CLOSED_TP, CLOSED_SL, CANCELED_BY_SIGNAL or
\* FAILED keeps that status through every later reconcile_oco sweep, SELL
\* handler run and execute_signal call; a link is created only with status
\* ACTIVE and only by execute_signal.
C35_TerminalStatusesAbsorb == [][C35_Absorbing /\ C35_CreatedActive]_vars

\* An old link the SELL handler canceled and an older settled one have been
\* through a later sweep.
C35_Witness ==
    /\ run.op = "reconcile_oco" /\ run.pc = "idle" /\ run.outcome = "returned"
    /\ mode = "LIVE"
    /\ oco_links[1].status = "CLOSED_TP"
    /\ oco_links[2].status = "CANCELED_BY_SIGNAL"

\* ---------------------------------------------------------------- C36
\* C36: two worker instances on one store are handed the same signal and
\* run execute_signal in any interleaving: at most one entry buy is placed
\* for the signal_id and at most one ACTIVE link exists for its symbol.
C36_OneBuyOneLink ==
    /\ entry_buys["s1"] <= 1
    /\ Cardinality({k \in 1..Len(oco_links) :
                       /\ oco_links[k].status = "ACTIVE"
                       /\ Upper(oco_links[k].symbol) = "BTC/USDT"}) <= 1

\* ---------------------------------------------------------------- C37
\* The status the link has after the reconcile sweep, and after the SELL
\* handler, have seen its legs with the statuses tp and sl.
StatusByReconcile(k, tp, sl) ==
    ReconcileLink(Cur, oco_links[k], [fetch |-> "ok", tp |-> tp, sl |-> sl]).links[k].status

StatusBySell(k, tp, sl) ==
    SellLink(Cur, oco_links[k],
             [fetch |-> "ok", tp |-> tp, sl |-> sl, cancel |-> "ok"]).links[k].status

\* C37: for every ACTIVE link and every pair of leg statuses of which at
\* least one is closed or filled, reconcile_oco and the SELL handler assign
\* the link the same terminal status.
C37_HandlersAgree ==
    \A k \in 1..Len(oco_links) : \A tp, sl \in RawStatuses :
        (oco_links[k].status = "ACTIVE"
            /\ (Norm(tp) \in CLOSED \/ Norm(sl) \in CLOSED))
        => StatusByReconcile(k, tp, sl) = StatusBySell(k, tp, sl)

\* ---------------------------------------------------------------- C38
\* KILL_SWITCH not set, or set to one of the values of the claim.
KillSwitchSettings == {"unset", "true", "1", "yes", "on", "false"}

\* C38: the configuration flag, the kill-switch oracle, the engine's gate
\* and the adapter's guard read the same value from every setting of
\* KILL_SWITCH (unset, true, 1, yes, on, false), and unset means on; the
\* flag the running engine holds is the configuration flag of its setting.
C38_OneKillSwitchReading ==
    /\ \E raw \in EnvValues :
          /\ env_kill_switch = engine_env_kill_switch(raw)
          /\ env_kill_switch = config_KILL_SWITCH(raw)
    /\ \A raw \in KillSwitchSettings :
          /\ oracle_env_kill(raw) = config_KILL_SWITCH(raw)
          /\ engine_env_kill_switch(raw) = config_KILL_SWITCH(raw)
          /\ adapter_kill_switch(raw) = config_KILL_SWITCH(raw)
    /\ config_KILL_SWITCH("unset")
    /\ oracle_env_kill("unset")
    /\ engine_env_kill_switch("unset")
    /\ adapter_kill_switch("unset")

\* ---------------------------------------------------------------- C39
\* The places of the entries with the signal_id.
Matches(signals, signal_id) ==
    {i \in 1..Len(signals) : signals[i].signal_id = signal_id}

\* The list without its i-th entry.
Without(signals, i) == SubSeq(signals, 1, i - 1) \o SubSeq(signals, i + 1, Len(signals))

UniqueIds(signals) ==
    \A i, j \in 1..Len(signals) : signals[i].signal_id = signals[j].signal_id => i = j

\* What the two calls have done to the file and what they return, when
\* they are about to return.
C39_AtReturn ==
    LET call == outbox.call
        queue == outbox.file.signals
    IN
    /\ (call.op = "acknowledge_processed" /\ call.pc = "return" /\ call.signal[1] # "")
        => LET at == Matches(call.before, call.signal[1]) IN
           /\ outbox.file.state = "json"
           /\ IF at = {}
              THEN call.result = <<FALSE>> /\ queue = call.before
              ELSE /\ call.result = <<TRUE>>
                   /\ \E i \in at : /\ \A j \in at : i <= j
                                    /\ queue = Without(call.before, i)
           /\ (call.before # <<>> /\ UniqueIds(call.before)
                 /\ call.signal[1] = call.before[1].signal_id)
               => queue = Tail(call.before)
    /\ (call.op = "acknowledge_processed" /\ call.pc = "return" /\ call.signal[1] = "")
        => call.result = <<FALSE>>
    /\ (call.op = "get_latest_signal" /\ call.pc = "return")
        => /\ queue = call.before
           /\ call.result = IF call.before = <<>> THEN <<>> ELSE <<call.before[1]>>

\* No step of a call that returns False, and no step of get_latest_signal
\* once the file exists, changes the file.
C39_LeavesFile ==
    /\ (outbox'.call.op = "acknowledge_processed" /\ outbox'.call.result = <<FALSE>>)
        => outbox'.file = outbox.file
    /\ (outbox.call.op = "get_latest_signal" /\ outbox.call.pc # "idle"
          /\ outbox.file.state = "json")
        => outbox'.file = outbox.file

\* C39: acknowledge_processed(signal_id) takes exactly the first entry with
\* that signal_id out of the queue, keeps the others in order and returns
\* True; with no such entry, or an empty signal_id, it returns False and
\* leaves the outbox as it is.  get_latest_signal returns the head and
\* leaves it in the queue, so acknowledging the id of the head removes the
\* head when the ids in the queue are unique.
C39_AcknowledgeRemovesFirstMatch == [] C39_AtReturn /\ [][C39_LeavesFile]_vars

\* Three queued signals, the last two with the acknowledged id: the second
\* has been taken out, the first and the third stay in order.
C39_Witness ==
    /\ outbox.call.op = "acknowledge_processed" /\ outbox.call.pc = "return"
    /\ outbox.call.result = <<TRUE>>
    /\ Len(outbox.call.before) = 3
    /\ Matches(outbox.call.before, outbox.call.signal[1]) = {2, 3}
    /\ outbox.file.signals = <<outbox.call.before[1], outbox.call.before[3]>>

\* ---------------------------------------------------------------- C40
\* C40: with BLOCK_SIGNALS_WHEN_ACTIVE_OCO on, no TRADE signal in the outbox
\* is for a symbol that had an ACTIVE link; a symbol whose lookup failed
\* counted as having one; every SELL signal is for a symbol the generator
\* took to have an ACTIVE link, with risk KILL; no call of generate_signal
\* appended two signals, and no signal was appended before the cooldown
\* since the one before it had elapsed.
C40_GeneratorGates ==
    LET sent == generator.outbox IN
    /\ \A i \in 1..Len(sent) :
          /\ sent[i].lookup = "raise" => sent[i].active_oco
          /\ has_active_oco_for_symbol(oco_links, sent[i].symbol) => sent[i].active_oco
          /\ (sent[i].final_verdict = "TRADE" /\ generator.block)
                => /\ ~ sent[i].active_oco
                   /\ ~ has_active_oco_for_symbol(oco_links, sent[i].symbol)
          /\ sent[i].final_verdict = "SELL"
                => sent[i].active_oco /\ sent[i].risk = "KILL"
          /\ sent[i].final_verdict \in {"TRADE", "SELL"}
    /\ \A i, j \in 1..Len(sent) :
          i < j => /\ sent[i].call < sent[j].call
                   /\ sent[j].ts - sent[i].ts >= COOLDOWN_SECONDS
    /\ generator.last_emit_ts = IF sent = <<>> THEN 0 ELSE sent[Len(sent)].ts
    /\ (generator.k > 0 /\ sent # <<>>)
          => generator.now - sent[Len(sent)].ts >= COOLDOWN_SECONDS

\* A protective SELL after a failed lookup, then, a cooldown later, a TRADE
\* on the symbol without a link while the other has an ACTIVE one.
C40_Witness ==
    /\ generator.block
    /\ Len(generator.outbox) = 2
    /\ generator.outbox[1].final_verdict = "SELL"
    /\ generator.outbox[1].lookup = "raise"
    /\ generator.outbox[2].final_verdict = "TRADE"
    /\ generator.outbox[2].symbol = "ETH/USDT"
    /\ has_active_oco_for_symbol(oco_links, "BTC/USDT")

====
